---- MODULE Spec2Model ----
(***************************************************************************)
(* Quantum-ZKP: the primitive layer (QuantumCrypto) and the four proof     *)
(* engines (HashZKP, LatticeZKP, MultivariateZKP, HybridZKP).              *)
(*                                                                         *)
(* The library is a set of static methods without shared state, so the     *)
(* state of the model is the value most recently returned by a call and    *)
(* the proof object a caller currently holds.                              *)
(*                                                                         *)
(* Representation.                                                         *)
(*  - A Buffer is a sequence of atoms.  <<"b", n>> is the byte n;          *)
(*    <<"H", k, src>> is the 32-byte digest sha256 applied k times to the   *)
(*    buffer src; <<"M", key, data>> is the 32-byte HMAC-SHA256 of data     *)
(*    under key; <<"R", n, id>> is the id-th outcome of randomBytes(n),     *)
(*    used where the bytes are only ever hashed; <<"J", sys>> is the JSON   *)
(*    text of a polynomial system.  sha256 and HMAC are collision-free:     *)
(*    two digests are equal exactly when their preimages are.              *)
(*  - A bigint that is never negative is the sequence of its base-256      *)
(*    digits, most significant first, without leading zeros (0 is <<>>).   *)
(*  - A JavaScript value of unknown type is a record [t |-> tag, v |-> _]. *)
(***************************************************************************)
EXTENDS Integers, Sequences, FiniteSets, TLC

VARIABLES
    call,      \* the last call of a primitive: its name, arguments and result
    held,      \* the proof object the caller holds
    prev,      \* the proof returned by the createProof call before the last one
    last,      \* the last engine operation and its arguments
    verdict    \* what the last verifyProof call returned

vars == <<call, held, prev, last, verdict>>

Max(a, b) == IF a > b THEN a ELSE b
Min(a, b) == IF a < b THEN a ELSE b
\* Math.ceil(a / b) for integers a >= 0, b > 0
CeilDiv(a, b) == (a + b - 1) \div b

(***************************************************************************)
(* Big integers                                                            *)
(***************************************************************************)
\* without its leading zero digits
Strip(x) ==
    IF \A i \in 1..Len(x) : x[i] = 0 THEN <<>>
    ELSE LET first == CHOOSE i \in 1..Len(x) : x[i] # 0 /\ \A j \in 1..(i - 1) : x[j] = 0
         IN  SubSeq(x, first, Len(x))

RECURSIVE FromInt(_)
FromInt(n) == IF n = 0 THEN <<>> ELSE Append(FromInt(n \div 256), n % 256)

RECURSIVE ToIntFrom(_, _, _)
ToIntFrom(x, i, acc) == IF i > Len(x) THEN acc ELSE ToIntFrom(x, i + 1, acc * 256 + x[i])
\* defined for values below 2^31
ToInt(x) == ToIntFrom(x, 1, 0)

\* the i-th least significant digit, i from 0
Digit(x, i) == IF i < Len(x) THEN x[Len(x) - i] ELSE 0

BigIsZero(x) == Len(x) = 0

BigLess(x, y) ==
    IF Len(x) # Len(y) THEN Len(x) < Len(y)
    ELSE \E i \in 1..Len(x) : x[i] < y[i] /\ \A j \in 1..(i - 1) : x[j] = y[j]

\* Carries are resolved without a loop over the digits.  c[k] is the coefficient
\* of 256^(k-1), below 2^31; one pass moves the part above 255 one place up.
Spread(c) ==
    [k \in 1..(Len(c) + 1) |->
        (IF k <= Len(c) THEN c[k] % 256 ELSE 0) + (IF k > 1 THEN c[k - 1] \div 256 ELSE 0)]

\* coefficients of at most 256, the top one 0: a carry enters place k when a place
\* below holds 256 and every place between holds at least 255
Resolve(c) ==
    [k \in 1..Len(c) |->
        LET carry == \E j \in 1..(k - 1) :
                        c[j] = 256 /\ \A t \in (j + 1)..(k - 1) : c[t] >= 255
        IN  (c[k] + (IF carry THEN 1 ELSE 0)) % 256]

\* the number with the coefficients c, least significant first
FromCoefficients(c) ==
    LET d == Resolve(Spread(Spread(Spread(Spread(Spread(c))))))
    IN  Strip([k \in 1..Len(d) |-> d[Len(d) + 1 - k]])

BigAdd(x, y) ==
    FromCoefficients([k \in 1..Max(Len(x), Len(y)) |-> Digit(x, k - 1) + Digit(y, k - 1)])

\* sum of the k-th digits of terms[lo..hi]
RECURSIVE SumDigits(_, _, _, _)
SumDigits(terms, k, lo, hi) ==
    IF lo > hi THEN 0
    ELSE IF lo = hi THEN Digit(terms[lo], k)
    ELSE LET mid == (lo + hi) \div 2
         IN  SumDigits(terms, k, lo, mid) + SumDigits(terms, k, mid + 1, hi)

\* the sum of fewer than 2^23 numbers, place by place
BigSum(terms) ==
    LET width == IF Len(terms) = 0 THEN 0
                 ELSE CHOOSE n \in {Len(terms[i]) : i \in 1..Len(terms)} :
                        \A i \in 1..Len(terms) : Len(terms[i]) <= n
    IN  FromCoefficients([k \in 1..width |-> SumDigits(terms, k - 1, 1, Len(terms))])

\* x - y for x >= y: a borrow enters place k when a place below has the smaller
\* digit in x and no place between has the larger one
BigSub(x, y) ==
    Strip([i \in 1..Len(x) |->
        LET k == Len(x) - i
            borrow == \E j \in 0..(k - 1) :
                         /\ Digit(x, j) < Digit(y, j)
                         /\ \A t \in (j + 1)..(k - 1) : Digit(x, t) <= Digit(y, t)
        IN  (Digit(x, k) - Digit(y, k) - (IF borrow THEN 1 ELSE 0) + 256) % 256])

\* sum of Digit(x, i) * Digit(y, k - i) for i in lo..hi
RECURSIVE Convolve(_, _, _, _, _)
Convolve(x, y, k, lo, hi) ==
    IF lo > hi THEN 0
    ELSE IF lo = hi THEN Digit(x, lo) * Digit(y, k - lo)
    ELSE LET mid == (lo + hi) \div 2
         IN  Convolve(x, y, k, lo, mid) + Convolve(x, y, k, mid + 1, hi)

\* x * y for factors of fewer than 2^15 digits
BigMul(x, y) ==
    IF BigIsZero(x) \/ BigIsZero(y) THEN <<>>
    ELSE FromCoefficients([k \in 1..(Len(x) + Len(y) - 1) |->
            Convolve(x, y, k - 1, Max(0, k - Len(y)), Min(k - 1, Len(x) - 1))])

\* the values the quotient digit of r by q can take, from the leading digits: q
\* has at least two digits, r < 256 * q
QuotientRange(r, q) ==
    (ToInt(SubSeq(r, 1, Len(r) - Len(q) + 2)) \div (ToInt(SubSeq(q, 1, 2)) + 1))
        ..Min(255, ToInt(SubSeq(r, 1, Len(r) - Len(q) + 2)) \div ToInt(SubSeq(q, 1, 2)))

\* the largest d in 0..255 with d * q <= r, for r < 256 * q
QuotientDigit(r, q) ==
    CHOOSE d \in QuotientRange(r, q) :
        /\ ~BigLess(r, BigMul(FromInt(d), q))
        /\ BigLess(r, BigMul(FromInt(d + 1), q))

RECURSIVE ModLong(_, _, _, _)
ModLong(x, q, i, r) ==
    IF i > Len(x) THEN r
    ELSE LET s == Strip(Append(r, x[i]))
         IN  ModLong(x, q, i + 1, BigSub(s, BigMul(FromInt(QuotientDigit(s, q)), q)))

\* 256^n % q for a machine-size q
RECURSIVE PowerMod(_, _)
PowerMod(n, q) ==
    IF n = 0 THEN 1 % q
    ELSE IF n % 2 = 0 THEN (PowerMod(n \div 2, q) * PowerMod(n \div 2, q)) % q
    ELSE (256 * PowerMod(n - 1, q)) % q

\* the number of the digits lo..hi of x, % q, by halves
RECURSIVE ModHorner(_, _, _, _)
ModHorner(x, q, lo, hi) ==
    IF lo > hi THEN 0
    ELSE IF lo = hi THEN x[lo] % q
    ELSE LET mid == (lo + hi) \div 2
         IN  (ModHorner(x, q, lo, mid) * PowerMod(hi - mid, q)
              + ModHorner(x, q, mid + 1, hi)) % q

\* x % q for x >= 0, q > 0 (machine arithmetic when q is below 2^15, so that the
\* product of two residues is a machine integer, else long division, one step per
\* digit that x has more than q)
BigMod(x, q) ==
    IF BigLess(x, q) THEN x
    ELSE IF Len(q) <= 2 /\ ToInt(q) < 2^15
    THEN FromInt(ModHorner(x, ToInt(q), 1, Len(x)))
    ELSE ModLong(x, q, Len(q), SubSeq(x, 1, Len(q) - 1))

\* x % 2^64
Low64(x) == Strip(SubSeq(x, Max(1, Len(x) - 7), Len(x)))

(***************************************************************************)
(* Buffers                                                                 *)
(***************************************************************************)
Byte(n) == <<"b", n>>
Bytes(s) == [i \in 1..Len(s) |-> Byte(s[i])]
IsByteAtom(a) == a[1] = "b"
IsBytes(buf) == \A i \in 1..Len(buf) : IsByteAtom(buf[i])
\* the bytes of a buffer that holds bytes only
Raw(buf) == [i \in 1..Len(buf) |-> buf[i][2]]

AtomLength(a) ==
    CASE a[1] = "b" -> 1
      [] a[1] = "H" -> 32
      [] a[1] = "M" -> 32
      [] a[1] = "R" -> a[2]
      [] OTHER -> 1

RECURSIVE LengthFrom(_, _, _)
LengthFrom(buf, lo, hi) ==
    IF lo > hi THEN 0
    ELSE IF lo = hi THEN AtomLength(buf[lo])
    ELSE LET mid == (lo + hi) \div 2
         IN  LengthFrom(buf, lo, mid) + LengthFrom(buf, mid + 1, hi)

\* Buffer.length
ByteLength(buf) == LengthFrom(buf, 1, Len(buf))

Zeros(n) == [i \in 1..n |-> Byte(0)]

\* 'corrupted' in ASCII
Sentinel == Bytes(<<99, 111, 114, 114, 117, 112, 116, 101, 100>>)

\* buf.toString('utf8').includes('corrupted'): ASCII bytes decode to themselves
\* whatever surrounds them, so this is a search for the nine bytes
IncludesCorrupted(buf) ==
    \E i \in 1..(Len(buf) - Len(Sentinel) + 1) :
        \A j \in 1..Len(Sentinel) : buf[i + j - 1] = Sentinel[j]

(***************************************************************************)
(* QuantumCrypto: hashing                                                  *)
(***************************************************************************)
\* QuantumCrypto.hash(data, 'sha256')
Sha256(data) ==
    IF Len(data) = 1 /\ data[1][1] = "H"
    THEN << <<"H", data[1][2] + 1, data[1][3]>> >>
    ELSE << <<"H", 1, data>> >>

\* QuantumCrypto.hmac(data, key, 'sha256')
Hmac(data, key) == << <<"M", key, data>> >>

\* QuantumCrypto.generateRandomBytes(n), seen as an opaque block
RandomBlock(n, id) == << <<"R", n, id>> >>

(***************************************************************************)
(* QuantumCrypto.modPow                                                    *)
(***************************************************************************)
RECURSIVE ModPowLoop(_, _, _, _)
ModPowLoop(result, base, exponent, modulus) ==
    IF exponent > 0
    THEN ModPowLoop(IF exponent % 2 = 1 THEN (result * base) % modulus ELSE result,
                    (base * base) % modulus, exponent \div 2, modulus)
    ELSE result

ModPowNoUnitCheck(base, exponent, modulus) ==
    ModPowLoop(1, base % modulus, exponent, modulus)

ModPow(base, exponent, modulus) ==
    IF modulus = 1 THEN 0 ELSE ModPowLoop(1, base % modulus, exponent, modulus)

(***************************************************************************)
(* HashZKP.createHashChain / verifyHashChain                               *)
(***************************************************************************)
\* sha256 applied n times
Sha256Times(data, n) ==
    IF n = 0 THEN data
    ELSE IF Len(data) = 1 /\ data[1][1] = "H"
    THEN << <<"H", data[1][2] + n, data[1][3]>> >>
    ELSE << <<"H", n, data>> >>

\* HashZKP.createHashChain(seed, length): element i of the loop is the digest of
\* element i - 1, the first one the digest of the seed
CreateHashChain(seed, length) == [i \in 1..length |-> Sha256Times(seed, i)]

VerifyHashChainSkipFirst(hashChain) ==
    IF Len(hashChain) < 2 THEN FALSE
    ELSE \A i \in 3..Len(hashChain) : Sha256(hashChain[i - 1]) = hashChain[i]

\* HashZKP.verifyHashChain(hashChain); the loop index i of the code is i - 1 here
VerifyHashChain(hashChain) ==
    IF Len(hashChain) < 2 THEN FALSE
    ELSE \A i \in 2..Len(hashChain) : Sha256(hashChain[i - 1]) = hashChain[i]

(***************************************************************************)
(* QuantumCrypto: Merkle trees                                             *)
(***************************************************************************)
NextLevel(currentLevel) ==
    [k \in 1..CeilDiv(Len(currentLevel), 2) |->
        LET left  == currentLevel[2 * k - 1]
            right == IF 2 * k <= Len(currentLevel) THEN currentLevel[2 * k] ELSE left
        IN  Sha256(left \o right)]

RECURSIVE TreeFrom(_, _)
TreeFrom(tree, currentLevel) ==
    IF Len(currentLevel) > 1
    THEN LET nextLevel == NextLevel(currentLevel)
         IN  TreeFrom(Append(tree, nextLevel), nextLevel)
    ELSE [tree |-> tree, root |-> currentLevel[1]]

\* QuantumCrypto.generateMerkleTree(leaves), for a non-empty list
GenerateMerkleTree(leaves) == TreeFrom(<<leaves>>, leaves)

RECURSIVE MerklePathFrom(_, _, _, _)
MerklePathFrom(tree, level, currentIndex, path) ==
    IF level > Len(tree) - 1 THEN path
    ELSE LET isRight      == currentIndex % 2 = 1
             siblingIndex == IF isRight THEN currentIndex - 1 ELSE currentIndex + 1
         IN  MerklePathFrom(tree, level + 1, currentIndex \div 2,
                 IF siblingIndex < Len(tree[level])
                 THEN Append(path, tree[level][siblingIndex + 1])
                 ELSE path)

\* QuantumCrypto.generateMerkleProof(tree, leafIndex); leafIndex counts from 0
GenerateMerkleProof(tree, leafIndex) == MerklePathFrom(tree, 1, leafIndex, <<>>)

RECURSIVE MerkleFold(_, _, _, _)
MerkleFold(currentHash, merkleProof, k, currentIndex) ==
    IF k > Len(merkleProof) THEN currentHash
    ELSE LET sibling  == merkleProof[k]
             isRight  == currentIndex % 2 = 1
             combined == IF isRight THEN sibling \o currentHash ELSE currentHash \o sibling
         IN  MerkleFold(Sha256(combined), merkleProof, k + 1, currentIndex \div 2)

\* QuantumCrypto.verifyMerkleProof(leaf, proof, root, leafIndex)
VerifyMerkleProof(leaf, merkleProof, root, leafIndex) ==
    MerkleFold(leaf, merkleProof, 1, leafIndex) = root

(***************************************************************************)
(* JavaScript values of unknown type                                       *)
(***************************************************************************)
Undefined == [t |-> "undefined", v |-> 0]
Num(n) == [t |-> "number", v |-> n]
\* NaN: typeof NaN is 'number', and every comparison with NaN is false
NaN == [t |-> "nan", v |-> 0]
Str(s) == [t |-> "string", v |-> s]
\* a bigint: sign and magnitude
BigV(neg, n) == [t |-> "bigint", v |-> [neg |-> neg, mag |-> FromInt(n)]]
Arr(s) == [t |-> "array", v |-> s]

TypeOf(x) == IF x.t = "nan" THEN "number" ELSE x.t
\* x < n and x >= n for a value whose typeof is 'number'
NumLess(x, n) == x.t = "number" /\ x.v < n
NumGeq(x, n) == x.t = "number" /\ x.v >= n
\* x <= 0n for a bigint
BigLeqZero(x) == x.v.neg \/ BigIsZero(x.v.mag)
\* the truthiness that || tests
Truthy(x) ==
    CASE x.t = "undefined" -> FALSE
      [] x.t = "nan" -> FALSE
      [] x.t = "number" -> x.v # 0
      [] x.t = "bigint" -> ~BigIsZero(x.v.mag)
      [] x.t = "string" -> x.v # ""
      [] OTHER -> TRUE
\* a || b
OrElse(a, b) == IF Truthy(a) THEN a ELSE b

(***************************************************************************)
(* QuantumCrypto.validateParameters                                        *)
(***************************************************************************)
MinDimension == 128
MinChainLength == 100
MinVariables == 8
MinAlgorithms == 2
BaseAlgorithms == {"lattice", "hash", "multivariate"}

\* the parameter object; a field that is not supplied is undefined
NoParameters ==
    [dimension |-> Undefined, modulus |-> Undefined, chainLength |-> Undefined,
     variables |-> Undefined, equations |-> Undefined, algorithms |-> Undefined]

ValidateLatticeParameters(parameters) ==
    IF TypeOf(parameters.dimension) # "number" \/ NumLess(parameters.dimension, MinDimension)
    THEN FALSE
    ELSE IF TypeOf(parameters.modulus) # "bigint" \/ BigLeqZero(parameters.modulus)
    THEN FALSE
    ELSE TRUE

ValidateHashParameters(parameters) ==
    IF TypeOf(parameters.chainLength) # "number" \/ NumLess(parameters.chainLength, MinChainLength)
    THEN FALSE
    ELSE TRUE

ValidateMultivariateParameters(parameters) ==
    IF TypeOf(parameters.variables) # "number" \/ NumLess(parameters.variables, MinVariables)
    THEN FALSE
    ELSE IF TypeOf(parameters.equations) # "number"
            \/ (parameters.variables.t = "number"
                /\ NumLess(parameters.equations, parameters.variables.v))
    THEN FALSE
    ELSE TRUE

ValidateHybridParameters(parameters) ==
    IF parameters.algorithms.t # "array" \/ Len(parameters.algorithms.v) < MinAlgorithms
    THEN FALSE
    ELSE \A i \in 1..Len(parameters.algorithms.v) :
            parameters.algorithms.v[i] \in BaseAlgorithms

ValidateParameters(algorithm, parameters) ==
    CASE algorithm = "lattice" -> ValidateLatticeParameters(parameters)
      [] algorithm = "hash" -> ValidateHashParameters(parameters)
      [] algorithm = "multivariate" -> ValidateMultivariateParameters(parameters)
      [] algorithm = "hybrid" -> ValidateHybridParameters(parameters)
      [] OTHER -> FALSE

(***************************************************************************)
(* Calls of the primitives, one at a time, on inputs from bounded sets     *)
(***************************************************************************)
NoProof == [type |-> "none"]
NoCall == [op |-> "none", done |-> FALSE]

MaxBase == 4
MaxExponent == 10
MaxModulus == 12
\* the modulus of the documented example modPow(2, 10, 1000)
ExampleModulus == 1000

RECURSIVE Pow(_, _)
Pow(b, e) == IF e = 0 THEN 1 ELSE b * Pow(b, e - 1)

ModPowInputs ==
    {[op |-> "modPow", done |-> FALSE, base |-> base, exponent |-> exponent,
      modulus |-> modulus, result |-> 0] :
        base \in 0..MaxBase, exponent \in 0..MaxExponent,
        modulus \in (1..MaxModulus) \cup {ExampleModulus}}

ModPowCall ==
    /\ call.op = "modPow" /\ ~call.done
    /\ call' = [call EXCEPT !.done = TRUE,
                            !.result = ModPow(call.base, call.exponent, call.modulus)]
    /\ UNCHANGED <<held, prev, last, verdict>>

MaxChain == 4
ChainSeed == Bytes(<<1>>)
ChainItems ==
    {ChainSeed, Sha256(ChainSeed), Sha256(Sha256(ChainSeed)),
     Sha256(Sha256(Sha256(ChainSeed)))}
Chains == UNION {[1..n -> ChainItems] : n \in 0..MaxChain}

ChainInputs ==
    {[op |-> "verifyHashChain", done |-> FALSE, chain |-> chain, result |-> FALSE] :
        chain \in Chains}

VerifyHashChainCall ==
    /\ call.op = "verifyHashChain" /\ ~call.done
    /\ call' = [call EXCEPT !.done = TRUE, !.result = VerifyHashChain(call.chain)]
    /\ UNCHANGED <<held, prev, last, verdict>>

MaxLeaves == 4
LeafItems == {Bytes(<<1>>), Bytes(<<2>>)}
LeafLists == UNION {[1..n -> LeafItems] : n \in 1..MaxLeaves}

MerkleInputs ==
    {[op |-> "verifyMerkleProof", done |-> FALSE, leaves |-> c[1], index |-> c[2],
      leaf |-> c[3], path |-> <<>>, root |-> <<>>, result |-> FALSE] :
        c \in {c \in LeafLists \X (0..(MaxLeaves - 1)) \X LeafItems : c[2] < Len(c[1])}}

\* generateMerkleTree, generateMerkleProof and verifyMerkleProof in sequence
MerkleCall ==
    /\ call.op = "verifyMerkleProof" /\ ~call.done
    /\ LET built == GenerateMerkleTree(call.leaves)
           path  == GenerateMerkleProof(built.tree, call.index)
       IN  call' = [call EXCEPT !.done = TRUE, !.path = path, !.root = built.root,
                        !.result = VerifyMerkleProof(call.leaf, path, built.root, call.index)]
    /\ UNCHANGED <<held, prev, last, verdict>>

MaxAlgorithms == 3
AlgorithmTags == BaseAlgorithms \cup {"hybrid", "invalid"}
AlgorithmLists == UNION {[1..n -> AlgorithmTags] : n \in 0..MaxAlgorithms}

NumberInputs ==
    {Undefined, NaN, Str("128"), Num(0), Num(7), Num(8), Num(16), Num(24),
     Num(50), Num(99), Num(100), Num(127), Num(128), Num(500)}
ModulusInputs ==
    {Undefined, Num(1000), BigV(FALSE, 0), BigV(FALSE, 1), BigV(FALSE, 1000),
     BigV(TRUE, 5)}
ParameterInputs ==
    {[NoParameters EXCEPT !.dimension = d, !.modulus = m] :
        d \in {Undefined, NaN, Str("128"), Num(64), Num(127), Num(128), Num(256)},
        m \in ModulusInputs}
    \cup {[NoParameters EXCEPT !.chainLength = c] : c \in NumberInputs}
    \cup {[NoParameters EXCEPT !.variables = v, !.equations = e] :
            v \in {Undefined, NaN, Num(4), Num(7), Num(8), Num(16)},
            e \in {Undefined, NaN, Num(7), Num(8), Num(15), Num(16), Num(24)}}
    \cup {[NoParameters EXCEPT !.algorithms = a] :
            a \in {Undefined, Str("hash")} \cup {Arr(l) : l \in AlgorithmLists}}

ValidateInputs ==
    {[op |-> "validateParameters", done |-> FALSE, algorithm |-> algorithm,
      parameters |-> parameters, result |-> FALSE] :
        algorithm \in AlgorithmTags \cup {"unknown"}, parameters \in ParameterInputs}

ValidateCall ==
    /\ call.op = "validateParameters" /\ ~call.done
    /\ call' = [call EXCEPT !.done = TRUE,
                    !.result = ValidateParameters(call.algorithm, call.parameters)]
    /\ UNCHANGED <<held, prev, last, verdict>>

InitPrim ==
    /\ \/ call \in ModPowInputs
       \/ call \in ChainInputs
       \/ call \in MerkleInputs
       \/ call \in ValidateInputs
    /\ held = NoProof
    /\ prev = NoProof
    /\ last = [op |-> "init"]
    /\ verdict = "none"

NextPrim ==
    \/ ModPowCall
    \/ VerifyHashChainCall
    \/ MerkleCall
    \/ ValidateCall

SpecPrim == InitPrim /\ [][NextPrim]_vars

(***************************************************************************)
(* Proof objects                                                           *)
(*                                                                         *)
(* A proof is a record.  Its fields `missing` and `mistyped` name the      *)
(* fields that are undefined, or defined with a value of another type than *)
(* the declared one; createProof returns proofs where both are empty.      *)
(* [type |-> "null"] is a null or undefined proof.  The timestamp is left  *)
(* out: no operation reads it.                                             *)
(***************************************************************************)
NullProof == [type |-> "null"]
VERSION == "1.0.0"

\* x instanceof Buffer, x instanceof Array
IsPresent(proof, f) == f \notin proof.missing /\ f \notin proof.mistyped
\* x !== undefined
IsDefined(proof, f) == f \notin proof.missing

\* a verifyProof without the try block: an exception reaches the caller
Uncaught(outcome) == outcome

\* what a try block yields: "true", "false", or "throw" when an exception escapes it
\* try { ... } catch { return false }
Caught(outcome) == IF outcome = "throw" THEN "false" ELSE outcome

\* the secret argument: text or bytes
Text(s) == [kind |-> "string", bytes |-> s]
Buf(s) == [kind |-> "buffer", bytes |-> s]
\* typeof secret === 'string' ? Buffer.from(secret, 'utf8') : secret (ASCII text)
SecretBuffer(secret) == Bytes(secret.bytes)

\* Buffer.slice(0, 32) of a buffer of at least 32 bytes
Slice32(buf) == IF IsBytes(buf) THEN SubSeq(buf, 1, 32) ELSE buf

(***************************************************************************)
(* HashZKP                                                                 *)
(***************************************************************************)
DEFAULT_CHAIN_LENGTH == 1000

\* HashZKP.generateChallenge
HashGenerateChallenge(commitment, witness) == Sha256(commitment \o witness)

\* a response with the whole witness in front, whatever its length
HashCreateResponseWhole(secret, witness, challenge) ==
    witness \o Hmac(challenge, Sha256(secret))

\* HashZKP.createResponse
HashCreateResponse(secret, witness, challenge) ==
    LET secretHash        == Sha256(secret)
        challengeResponse == Hmac(challenge, secretHash)
        witnessPart  == IF ByteLength(witness) >= 32 THEN Slice32(witness)
                        ELSE witness \o Zeros(32 - ByteLength(witness))
        responsePart == IF ByteLength(challengeResponse) >= 32
                        THEN Slice32(challengeResponse)
                        ELSE challengeResponse \o Zeros(32 - ByteLength(challengeResponse))
    IN  witnessPart \o responsePart

\* HashZKP.createProof; witness and randomSeed are the two generateRandomBytes draws
HashCreateProof(secret, parameters, witness, randomSeed) ==
    LET chainLength == OrElse(parameters.chainLength, Num(DEFAULT_CHAIN_LENGTH))
    IN  IF ~ValidateParameters("hash", [NoParameters EXCEPT !.chainLength = chainLength])
        THEN [threw |-> TRUE, message |-> "Invalid hash parameters", proof |-> NullProof]
        ELSE LET secretBuffer    == SecretBuffer(secret)
                 combinedSeed    == secretBuffer \o randomSeed
                 commitmentChain == CreateHashChain(combinedSeed, chainLength.v)
                 commitment      == commitmentChain[1]
                 challenge       == HashGenerateChallenge(commitment, witness)
                 response        == HashCreateResponse(secretBuffer, witness, challenge)
                 built           == GenerateMerkleTree(commitmentChain)
                 merkleProof     == GenerateMerkleProof(built.tree, 0)
             IN  [threw |-> FALSE, message |-> "",
                  proof |->
                    [type |-> "hash", commitment |-> commitment, challenge |-> challenge,
                     response |-> response, parameters |-> [chainLength |-> chainLength.v],
                     quantumSafe |-> TRUE, version |-> VERSION,
                     chainLength |-> chainLength.v, hashChain |-> commitmentChain,
                     commitmentChain |-> built.root, merkleTree |-> built.tree,
                     merkleProof |-> merkleProof, missing |-> {}, mistyped |-> {}]]

\* HashZKP.validateProofStructure
HashValidateProofStructure(proof) ==
    /\ proof.type = "hash"
    /\ IsPresent(proof, "commitment")
    /\ IsPresent(proof, "challenge")
    /\ IsPresent(proof, "response")
    /\ IsPresent(proof, "hashChain")
    /\ Len(proof.hashChain) > 0
    /\ IsPresent(proof, "chainLength") /\ proof.chainLength > 0
    /\ IsDefined(proof, "merkleTree")
    /\ IsDefined(proof, "merkleProof")

\* a verification that does not look at the lengths of response and challenge
HashVerifyBodyNoLengths(proof) ==
    IF proof.type = "null" THEN "throw"
    ELSE IF ~HashValidateProofStructure(proof) THEN "false"
    ELSE IF \/ "merkleProof" \in proof.mistyped
            \/ "hashChain[0]" \in proof.mistyped \cup proof.missing
            \/ ~IsPresent(proof, "commitmentChain")
    THEN "throw"
    ELSE IF ~VerifyMerkleProof(proof.hashChain[1], proof.merkleProof,
                               proof.commitmentChain, 0)
    THEN "false"
    ELSE IF ~VerifyHashChain(proof.hashChain) THEN "false"
    ELSE IF proof.hashChain[1] # proof.commitment THEN "false"
    ELSE "true"

\* The body of the try block of HashZKP.verifyProof.  Reading a property of a null
\* proof, iterating a merkleProof that is no array, concatenating or comparing a
\* value that is no Buffer all raise a TypeError.
HashVerifyBody(proof) ==
    IF proof.type = "null" THEN "throw"
    ELSE IF ~HashValidateProofStructure(proof) THEN "false"
    ELSE IF Len(proof.hashChain) = 0 THEN "false"
    ELSE IF \/ "merkleProof" \in proof.mistyped
            \/ "hashChain[0]" \in proof.mistyped \cup proof.missing
            \/ ~IsPresent(proof, "commitmentChain")
    THEN "throw"
    ELSE IF ~VerifyMerkleProof(proof.hashChain[1], proof.merkleProof,
                               proof.commitmentChain, 0)
    THEN "false"
    ELSE IF ~VerifyHashChain(proof.hashChain) THEN "false"
    ELSE IF proof.hashChain[1] # proof.commitment THEN "false"
    ELSE IF ByteLength(proof.response) # 64 THEN "false"
    ELSE IF ByteLength(proof.challenge) # 32 THEN "false"
    ELSE "true"

\* the checks of HashZKP.verifyProof in the order of the code
HashCheckOrder ==
    <<"validateProofStructure", "hashChain.length", "verifyMerkleProof", "verifyHashChain",
      "commitment", "response.length", "challenge.length">>

\* The checks HashZKP.verifyProof evaluates on a proof, up to the one that makes it
\* return false or raise; all of them when it returns true.
HashChecksEvaluated(proof) ==
    SubSeq(HashCheckOrder, 1,
        IF proof.type = "null" \/ ~HashValidateProofStructure(proof) THEN 1
        ELSE IF Len(proof.hashChain) = 0 THEN 2
        ELSE IF \/ "merkleProof" \in proof.mistyped
                \/ "hashChain[0]" \in proof.mistyped \cup proof.missing
                \/ ~IsPresent(proof, "commitmentChain")
        THEN 3
        ELSE IF ~VerifyMerkleProof(proof.hashChain[1], proof.merkleProof,
                                   proof.commitmentChain, 0)
        THEN 3
        ELSE IF ~VerifyHashChain(proof.hashChain) THEN 4
        ELSE IF proof.hashChain[1] # proof.commitment THEN 5
        ELSE IF ByteLength(proof.response) # 64 THEN 6
        ELSE 7)

\* HashZKP.verifyProof
HashVerifyProof(proof) == Caught(HashVerifyBody(proof))

(***************************************************************************)
(* QuantumCrypto: integers and buffers                                     *)
(*                                                                         *)
(* A bigint that may be negative is a record [neg, mag]; the integers read *)
(* from a buffer are magnitudes.                                           *)
(***************************************************************************)
Pos(mag) == [neg |-> FALSE, mag |-> mag]
Signed(n) == [neg |-> n < 0, mag |-> FromInt(IF n < 0 THEN -n ELSE n)]
Unsigned(ints) == [i \in 1..Len(ints) |-> Pos(ints[i])]

\* a remainder of magnitude r whose dividend was negative or not: -0 is 0
SignedRem(neg, r) == [neg |-> neg /\ ~BigIsZero(r), mag |-> r]

\* (x + e) % m for x >= 0 and m > 0: the remainder takes the sign of the dividend
AddRem(x, e, m) ==
    SignedRem(e.neg /\ BigLess(x, e.mag),
              BigMod(IF ~e.neg THEN BigAdd(x, e.mag)
                     ELSE IF BigLess(x, e.mag) THEN BigSub(e.mag, x)
                     ELSE BigSub(x, e.mag), m))

\* the loop of bufferToBigInts over a buffer of bytes
BufferToBigIntsBy(buffer, bytesPerInt, iterations) ==
    [i \in 1..iterations |->
        LET start == (i - 1) * bytesPerInt
            end   == Min(start + bytesPerInt, Len(buffer))
        IN  IF end <= start THEN <<>>
            ELSE Strip([j \in 1..(end - start) |-> buffer[start + j][2]])]

\* QuantumCrypto.bufferToBigInts(buffer, count) for a whole count
BufferToBigInts(buffer, count) ==
    IF count = 0 THEN <<>>
    ELSE BufferToBigIntsBy(buffer, CeilDiv(Len(buffer), count), count)

\* int.toString(16), padded to whole bytes, read by Buffer.from(_, 'hex'): the
\* minus sign of a negative value is no hex digit and decoding stops there
IntToBytes(int) ==
    IF int.neg THEN <<>>
    ELSE IF BigIsZero(int.mag) THEN <<0>>
    ELSE int.mag

\* Buffer.concat of parts[lo..hi], by halves
RECURSIVE ConcatFrom(_, _, _)
ConcatFrom(parts, lo, hi) ==
    IF lo > hi THEN <<>>
    ELSE IF lo = hi THEN parts[lo]
    ELSE LET mid == (lo + hi) \div 2
         IN  ConcatFrom(parts, lo, mid) \o ConcatFrom(parts, mid + 1, hi)

\* QuantumCrypto.bigIntsToBuffer
BigIntsToBuffer(ints) ==
    Bytes(ConcatFrom([i \in 1..Len(ints) |-> IntToBytes(ints[i])], 1, Len(ints)))

HasNonZero(ints) == \E i \in 1..Len(ints) : ~BigIsZero(ints[i])

\* one digest of all the hashes in a row
CombineHashesFlat(hashes) == Sha256(ConcatFrom(hashes, 1, Len(hashes)))

\* QuantumCrypto.combineHashes of a non-empty list
RECURSIVE CombineFrom(_, _, _)
CombineFrom(hashes, i, acc) ==
    IF i > Len(hashes) THEN acc
    ELSE CombineFrom(hashes, i + 1, Sha256(acc \o hashes[i]))
CombineHashes(hashes) ==
    IF Len(hashes) = 1 THEN hashes[1] ELSE CombineFrom(hashes, 2, hashes[1])

(***************************************************************************)
(* LatticeZKP                                                              *)
(***************************************************************************)
DEFAULT_DIMENSION == 256
DEFAULT_BITS == 1024

\* a value generateLargePrime(1024) can return: the prime 2^1023 + 1155
LargePrime ==
    [i \in 1..(DEFAULT_BITS \div 8) |->
        IF i = 1 THEN 128 ELSE IF i = 127 THEN 4 ELSE IF i = 128 THEN 131 ELSE 0]

\* The loop commitment = (commitment + a[i] * secretInts[i]) % modulus over the
\* vector: no term is negative, so the remainder of the sum is what the loop leaves
InnerProduct(a, secretInts, modulus) ==
    BigMod(BigSum([i \in 1..Len(a) |-> BigMul(a[i], secretInts[i])]), modulus)

\* LatticeZKP.createLWECommitment; error is the generateDiscreteGaussianError draw
CreateLWECommitment(a, secret, modulus, error) ==
    LET secretInts == BufferToBigInts(secret, Len(a))
        commitment == InnerProduct(a, secretInts, modulus)
    IN  BigIntsToBuffer(<<AddRem(commitment, error, modulus)>>)

\* LatticeZKP.generateLWEChallenge
GenerateLWEChallenge(commitment, witness, a) ==
    Sha256(commitment \o witness \o BigIntsToBuffer(Unsigned(a)))

\* LatticeZKP.createLWEResponse; challengeInt is the integer the challenge bytes spell
CreateLWEResponse(secret, witness, challengeInt, a, modulus) ==
    LET secretInts  == BufferToBigInts(secret, Len(a))
        witnessInts == BufferToBigInts(witness, Len(a))
        response == [i \in 1..Len(a) |->
                        BigMod(BigAdd(BigMod(BigMul(secretInts[i], challengeInt), modulus),
                                      witnessInts[i]), modulus)]
    IN  BigIntsToBuffer(Unsigned(response))

\* LatticeZKP.createPolynomialCommitment: the digest of dimension random coefficients
CreatePolynomialCommitment(dimension, id) == Sha256(RandomBlock(8 * dimension, id))

\* the vector a of QuantumCrypto.generateLWESample: dimension values in [0, modulus),
\* the id-th outcome of the random source
GenerateLWESample(dimension, modulus, id) ==
    [i \in 1..dimension |-> BigMod(FromInt((97 * id + 31 * i) % 65536), modulus)]

\* a construction whose challenge is a digest of the secret as well
LatticeCreateProofSecretChallenge(secretBuffer, dimension, modulus, id, witness, challengeInt, a, commitment) ==
    [threw |-> FALSE, message |-> "",
     proof |->
        [type |-> "lattice", commitment |-> commitment,
         response |-> CreateLWEResponse(secretBuffer, witness, challengeInt, a, modulus),
         challenge |-> Sha256(secretBuffer \o commitment \o witness),
         parameters |-> [dimension |-> dimension, modulus |-> modulus],
         quantumSafe |-> TRUE, version |-> VERSION,
         dimension |-> dimension, modulus |-> modulus,
         polynomialCommitment |-> CreatePolynomialCommitment(dimension, id),
         missing |-> {}, mistyped |-> {}]]

\* LatticeZKP.createProof from the commitment on: challenge, response, polynomial
\* commitment and the returned object
LatticeCreateProofAnswer(secretBuffer, dimension, modulus, id, witness, challengeInt, a, commitment) ==
    [threw |-> FALSE, message |-> "",
     proof |->
        [type |-> "lattice", commitment |-> commitment,
         response |-> CreateLWEResponse(secretBuffer, witness, challengeInt, a, modulus),
         challenge |-> GenerateLWEChallenge(commitment, witness, a),
         parameters |-> [dimension |-> dimension, modulus |-> modulus],
         quantumSafe |-> TRUE, version |-> VERSION,
         dimension |-> dimension, modulus |-> modulus,
         polynomialCommitment |-> CreatePolynomialCommitment(dimension, id),
         missing |-> {}, mistyped |-> {}]]

\* LatticeZKP.createProof once the LWE sample a exists
LatticeCreateProofCommit(secretBuffer, dimension, modulus, id, error, witness, challengeInt, a) ==
    LatticeCreateProofAnswer(secretBuffer, dimension, modulus, id, witness, challengeInt, a,
                             CreateLWECommitment(a, secretBuffer, modulus, error))

\* LatticeZKP.createProof with the defaults applied
LatticeCreateProofWith(secret, dimension, modulus, id, error, witness, challengeInt) ==
    IF ~ValidateParameters("lattice",
            [NoParameters EXCEPT !.dimension = dimension, !.modulus = modulus])
    THEN [threw |-> TRUE, message |-> "Invalid lattice parameters", proof |-> NullProof]
    ELSE LatticeCreateProofCommit(SecretBuffer(secret), dimension.v, modulus.v.mag, id,
                                  error, witness, challengeInt,
                                  GenerateLWESample(dimension.v, modulus.v.mag, id))

\* LatticeZKP.createProof; prime, id, error and witness are what the random source
\* gives in this call, challengeInt the integer the digest spells
LatticeCreateProof(secret, parameters, prime, id, error, witness, challengeInt) ==
    LatticeCreateProofWith(secret,
        OrElse(parameters.dimension, Num(DEFAULT_DIMENSION)),
        OrElse(parameters.modulus, [t |-> "bigint", v |-> Pos(prime)]),
        id, error, witness, challengeInt)

\* LatticeZKP.validateProofStructure
LatticeValidateProofStructure(proof) ==
    /\ proof.type = "lattice"
    /\ IsPresent(proof, "commitment")
    /\ IsPresent(proof, "challenge")
    /\ IsPresent(proof, "response")
    /\ IsPresent(proof, "polynomialCommitment")
    /\ IsPresent(proof, "dimension") /\ proof.dimension > 0
    /\ IsPresent(proof, "modulus") /\ ~BigIsZero(proof.modulus)

\* bufferToBigInts(response, Math.min(response.length / 8, 10)) for a non-empty
\* response: a count that is no whole number runs the loop once more
ResponseSample(response) ==
    IF Len(response) >= 80 THEN BufferToBigInts(response, 10)
    ELSE BufferToBigIntsBy(response, 8, CeilDiv(Len(response), 8))

\* LatticeZKP.verifyLWEEquation
VerifyLWEEquation(proof) ==
    IF IncludesCorrupted(proof.response) THEN FALSE
    ELSE LET commitment == BufferToBigInts(proof.commitment, 1)[1]
             response   == BufferToBigInts(proof.response, proof.dimension)
         IN  IF Len(response) # proof.dimension THEN FALSE
             ELSE IF \E i \in 1..Len(response) : ~BigLess(response[i], proof.modulus)
             THEN FALSE
             ELSE IF ~BigLess(commitment, proof.modulus) THEN FALSE
             ELSE IF ~HasNonZero(response) THEN FALSE
             ELSE IF Cardinality({response[i] : i \in 1..Len(response)}) = 1
                     /\ BigIsZero(response[1])
             THEN FALSE
             ELSE TRUE

\* LatticeZKP.verifyPolynomialCommitment
VerifyPolynomialCommitment(proof) ==
    IF ByteLength(proof.polynomialCommitment) = 0 THEN FALSE
    ELSE IF ByteLength(proof.polynomialCommitment) # 32 THEN FALSE
    ELSE TRUE

\* LatticeZKP.verifyZeroKnowledge
LatticeVerifyZeroKnowledge(proof) == Sha256(proof.response) # Sha256(proof.challenge)

\* The body of the try block of LatticeZKP.verifyProof.  The integers of a buffer
\* are read from its bytes; a digest is taken to hold a non-zero byte.
LatticeVerifyBody(proof) ==
    IF proof.type = "null" THEN "throw"
    ELSE IF ~LatticeValidateProofStructure(proof) THEN "false"
    ELSE IF ByteLength(proof.response) = 0 THEN "false"
    ELSE IF ByteLength(proof.challenge) # 32 THEN "false"
    ELSE IF ByteLength(proof.commitment) = 0 THEN "false"
    ELSE IF ~HasNonZero(ResponseSample(proof.response)) THEN "false"
    ELSE IF IsBytes(proof.challenge) /\ ~HasNonZero(BufferToBigInts(proof.challenge, 4))
    THEN "false"
    ELSE IF \/ IncludesCorrupted(proof.response)
            \/ IncludesCorrupted(proof.challenge)
            \/ IncludesCorrupted(proof.commitment)
    THEN "false"
    ELSE IF ~VerifyLWEEquation(proof) THEN "false"
    ELSE IF ~VerifyPolynomialCommitment(proof) THEN "false"
    ELSE IF ~LatticeVerifyZeroKnowledge(proof) THEN "false"
    ELSE "true"

\* LatticeZKP.verifyProof
LatticeVerifyProof(proof) == Caught(LatticeVerifyBody(proof))

(***************************************************************************)
(* MultivariateZKP                                                         *)
(*                                                                         *)
(* A polynomial system is a sequence of equations, an equation a sequence  *)
(* of polynomials, a polynomial a sequence of coefficients.  Its JSON text *)
(* is one atom <<"J", data>> whose coefficients are decimal strings.       *)
(***************************************************************************)
DEFAULT_VARIABLES == 8
DEFAULT_EQUATIONS == 12
DEFAULT_DEGREE == 2
MaxSystemDimension == 50
TwoTo64 == <<1, 0, 0, 0, 0, 0, 0, 0, 0>>

\* coeff.toString(): the decimal digits of a non-negative integer
RECURSIVE ToDecimal(_)
ToDecimal(n) == IF n < 10 THEN <<n>> ELSE Append(ToDecimal(n \div 10), n % 10)

\* BigInt(coeffStr)
RECURSIVE FromDecimalAt(_, _, _)
FromDecimalAt(digits, i, acc) ==
    IF i > Len(digits) THEN acc ELSE FromDecimalAt(digits, i + 1, acc * 10 + digits[i])
FromDecimal(digits) == FromDecimalAt(digits, 1, 0)

\* MultivariateZKP.createDefaultPolynomialSystem
CreateDefaultPolynomialSystem == [eq \in 1..2 |-> [v \in 1..2 |-> <<1, 2>>]]

\* MultivariateZKP.serializePolynomialSystem
SerializePolynomialSystem(system) ==
    << <<"J", [equations |-> Len(system),
               variables |-> IF Len(system) > 0 THEN Len(system[1]) ELSE 0,
               polynomials |->
                 [eq \in 1..Len(system) |->
                    [v \in 1..Len(system[eq]) |->
                       [d \in 1..Len(system[eq][v]) |-> ToDecimal(system[eq][v][d])]]]]>> >>

\* MultivariateZKP.generateMultivariateSystem: the id-th outcome of the random source,
\* coefficients in [1, 2^32)
MultivariateGenerateSystem(variables, equations, degree, id) ==
    LET system == [eq \in 1..equations |-> [v \in 1..variables |->
                     [d \in 1..Max(degree, 1) |->
                        1 + ((7919 * id + 131 * eq + 17 * v + 3 * d) % 32749) * 65521]]]
    IN  IF Len(system) = 0 \/ Len(system[1]) = 0
        THEN SerializePolynomialSystem(CreateDefaultPolynomialSystem)
        ELSE SerializePolynomialSystem(system)

\* MultivariateZKP.buildPolynomial
BuildPolynomial(data, eq, v) ==
    LET polynomial ==
            IF eq <= Len(data.polynomials) /\ v <= Len(data.polynomials[eq])
            THEN [d \in 1..Len(data.polynomials[eq][v]) |->
                     FromDecimal(data.polynomials[eq][v][d])]
            ELSE <<>>
    IN  IF Len(polynomial) = 0 THEN <<1>> ELSE polynomial

\* MultivariateZKP.buildPolynomialSystem
BuildPolynomialSystem(data, equations, variables) ==
    [eq \in 1..equations |-> [v \in 1..variables |-> BuildPolynomial(data, eq, v)]]

\* MultivariateZKP.deserializePolynomialSystem with parsePolynomialData,
\* validatePolynomialDimensions and ensureValidSystem: bytes that are no JSON text
\* of a system, and dimensions outside 1..50, raise and give the default system
DeserializePolynomialSystem(buffer) ==
    IF Len(buffer) # 1 \/ buffer[1][1] # "J" THEN CreateDefaultPolynomialSystem
    ELSE LET data == buffer[1][2]
         IN  IF data.equations = 0 \/ data.variables = 0
             THEN CreateDefaultPolynomialSystem
             ELSE IF \/ data.equations <= 0 \/ data.variables <= 0
                     \/ data.equations > MaxSystemDimension
                     \/ data.variables > MaxSystemDimension
             THEN CreateDefaultPolynomialSystem
             ELSE BuildPolynomialSystem(data, data.equations, data.variables)

RECURSIVE BigPow(_, _)
BigPow(value, j) == IF j = 0 THEN <<1>> ELSE BigMul(value, BigPow(value, j - 1))

\* The loop polyResult = (polyResult + polynomial[j] * value ** j) % 2^64 over the
\* coefficients: the remainder of the sum
PolyResult(polynomial, value) ==
    Low64(BigSum([j \in 1..Len(polynomial) |->
                    BigMul(FromInt(polynomial[j]), BigPow(value, j - 1))]))

\* the loop result = (result + polyResult) % 2^64 over the polynomials of an
\* equation that have a secret integer
EquationResult(equation, secretInts) ==
    Low64(BigSum([i \in 1..Min(Len(equation), Len(secretInts)) |->
                    PolyResult(equation[i], secretInts[i])]))

\* MultivariateZKP.solveMultivariateSystem
SolveMultivariateSystem(secret, polynomialSystem) ==
    LET system     == DeserializePolynomialSystem(polynomialSystem)
        secretInts == BufferToBigInts(secret, Min(Len(system[1]), 16))
        solution   == [eq \in 1..Len(system) |->
                         EquationResult(system[eq], secretInts)]
    IN  BigIntsToBuffer(Unsigned(solution))

\* MultivariateZKP.createMultivariateCommitment
CreateMultivariateCommitment(secret, polynomialSystem) ==
    Sha256(Sha256(secret) \o Sha256(polynomialSystem))

\* MultivariateZKP.generateMultivariateChallenge
GenerateMultivariateChallenge(commitment, witness, polynomialSystem) ==
    Sha256(commitment \o witness \o polynomialSystem)

\* MultivariateZKP.createMultivariateResponse; challengeInt is the integer the
\* challenge bytes spell
CreateMultivariateResponse(secret, witness, challengeInt) ==
    LET secretInts  == BufferToBigInts(secret, 16)
        witnessInts == BufferToBigInts(witness, 16)
        response == [i \in 1..16 |->
                        Low64(BigAdd(Low64(BigMul(secretInts[i], challengeInt)),
                                     witnessInts[i]))]
    IN  BigIntsToBuffer(Unsigned(response))

\* MultivariateZKP.createProof; id and witness are what the random source gives in
\* this call, challengeInt the integer the digest spells
MultivariateCreateProof(secret, parameters, id, witness, challengeInt) ==
    LET variables == OrElse(parameters.variables, Num(DEFAULT_VARIABLES))
        equations == OrElse(parameters.equations, Num(DEFAULT_EQUATIONS))
        degree    == DEFAULT_DEGREE
    IN  IF ~ValidateParameters("multivariate",
                [NoParameters EXCEPT !.variables = variables, !.equations = equations])
        THEN [threw |-> TRUE, message |-> "Invalid multivariate parameters",
              proof |-> NullProof]
        ELSE LET secretBuffer     == SecretBuffer(secret)
                 polynomialSystem ==
                     MultivariateGenerateSystem(variables.v, equations.v, degree, id)
                 commitment == CreateMultivariateCommitment(secretBuffer, polynomialSystem)
                 challenge  ==
                     GenerateMultivariateChallenge(commitment, witness, polynomialSystem)
                 response   == CreateMultivariateResponse(secretBuffer, witness, challengeInt)
                 solution   == SolveMultivariateSystem(secretBuffer, polynomialSystem)
             IN  [threw |-> FALSE, message |-> "",
                  proof |->
                    [type |-> "multivariate", commitment |-> commitment,
                     response |-> response, challenge |-> challenge,
                     parameters |-> [variables |-> variables.v, equations |-> equations.v],
                     quantumSafe |-> TRUE, version |-> VERSION,
                     variables |-> variables.v, equations |-> equations.v,
                     polynomialSystem |-> polynomialSystem, solution |-> solution,
                     missing |-> {}, mistyped |-> {}]]

\* MultivariateZKP.validateProofStructure
MultivariateValidateProofStructure(proof) ==
    /\ proof.type = "multivariate"
    /\ IsPresent(proof, "commitment")
    /\ IsPresent(proof, "challenge")
    /\ IsPresent(proof, "response")
    /\ IsPresent(proof, "polynomialSystem")
    /\ IsPresent(proof, "solution")
    /\ IsPresent(proof, "variables") /\ proof.variables > 0
    /\ IsPresent(proof, "equations") /\ proof.equations > 0

\* MultivariateZKP.verifyMultivariateCommitment
VerifyMultivariateCommitment(proof) == ByteLength(proof.commitment) = 32

\* MultivariateZKP.verifyPolynomialSolution
VerifyPolynomialSolution(proof) ==
    IF IncludesCorrupted(proof.solution) THEN FALSE
    ELSE IF ByteLength(proof.solution) = 0 THEN FALSE
    ELSE LET solutionInts == BufferToBigInts(proof.solution, proof.equations)
         IN  \A i \in 1..Len(solutionInts) : ~BigLess(TwoTo64, solutionInts[i])

\* MultivariateZKP.verifyZeroKnowledge
MultivariateVerifyZeroKnowledge(proof) == Sha256(proof.response) # Sha256(proof.challenge)

\* the body of the try block of MultivariateZKP.verifyProof
MultivariateVerifyBody(proof) ==
    IF proof.type = "null" THEN "throw"
    ELSE IF ~MultivariateValidateProofStructure(proof) THEN "false"
    ELSE IF \/ IncludesCorrupted(proof.response)
            \/ IncludesCorrupted(proof.challenge)
            \/ IncludesCorrupted(proof.commitment)
    THEN "false"
    ELSE IF ~VerifyMultivariateCommitment(proof) THEN "false"
    ELSE IF ~VerifyPolynomialSolution(proof) THEN "false"
    ELSE IF ~MultivariateVerifyZeroKnowledge(proof) THEN "false"
    ELSE "true"

\* MultivariateZKP.verifyProof
MultivariateVerifyProof(proof) == Caught(MultivariateVerifyBody(proof))

(***************************************************************************)
(* HybridZKP                                                               *)
(***************************************************************************)
DEFAULT_ALGORITHMS == <<"lattice", "hash", "multivariate">>

\* weights[type] || 0.25 under the default weights, as weight.toString() in ASCII
WeightText(type) ==
    CASE type = "lattice" -> <<48, 46, 52>>
      [] type = "hash" -> <<48, 46, 51>>
      [] type = "multivariate" -> <<48, 46, 50>>
      [] type = "hybrid" -> <<48, 46, 49>>
      [] OTHER -> <<48, 46, 50, 53>>

\* the positions of a list at which an algorithm appears for the first time
FirstOccurrences(algorithms) ==
    SelectSeq([i \in 1..Len(algorithms) |-> i],
              LAMBDA i : \A j \in 1..(i - 1) : algorithms[j] # algorithms[i])

\* a generateComponentProofs that creates one proof per distinct algorithm
GenerateDistinctComponentProofs(secret, algorithms, draws) ==
    [k \in 1..Len(FirstOccurrences(algorithms)) |->
        CASE algorithms[FirstOccurrences(algorithms)[k]] = "lattice" ->
                LatticeCreateProof(secret, NoParameters, LargePrime, draws[k].id,
                                   draws[k].error, draws[k].witness,
                                   draws[k].challengeInt).proof
          [] algorithms[FirstOccurrences(algorithms)[k]] = "hash" ->
                HashCreateProof(secret, NoParameters, draws[k].witness,
                                RandomBlock(16, draws[k].id)).proof
          [] algorithms[FirstOccurrences(algorithms)[k]] = "multivariate" ->
                MultivariateCreateProof(secret, NoParameters, draws[k].id,
                                        draws[k].witness, draws[k].challengeInt).proof]

\* HybridZKP.generateComponentProofs: one proof per entry of the list, each with
\* default parameters; draws[i] is what the random source gives the i-th engine
GenerateComponentProofs(secret, algorithms, draws) ==
    [i \in 1..Len(algorithms) |->
        CASE algorithms[i] = "lattice" ->
                LatticeCreateProof(secret, NoParameters, LargePrime, draws[i].id,
                                   draws[i].error, draws[i].witness,
                                   draws[i].challengeInt).proof
          [] algorithms[i] = "hash" ->
                HashCreateProof(secret, NoParameters, draws[i].witness,
                                RandomBlock(16, draws[i].id)).proof
          [] algorithms[i] = "multivariate" ->
                MultivariateCreateProof(secret, NoParameters, draws[i].id,
                                        draws[i].witness, draws[i].challengeInt).proof]

\* HybridZKP.createHybridCommitment
CreateHybridCommitment(secret, proofs) ==
    LET commitmentHashes == [i \in 1..Len(proofs) |-> Sha256(proofs[i].commitment)]
    IN  Sha256(CombineHashes(commitmentHashes) \o Sha256(secret))

\* HybridZKP.generateHybridChallenge
GenerateHybridChallenge(commitment, witness, proofs) ==
    Sha256(commitment \o witness
           \o CombineHashes([i \in 1..Len(proofs) |-> proofs[i].commitment]))

\* HybridZKP.createHybridResponse
CreateHybridResponse(secret, witness, challenge, proofs) ==
    LET secretHash        == Sha256(secret)
        combinedResponses == CombineHashes([i \in 1..Len(proofs) |-> proofs[i].response])
        challengeResponse == Hmac(challenge, secretHash)
    IN  Sha256(witness \o challengeResponse \o combinedResponses)

\* HybridZKP.combineProofs under the default weights
CombineProofs(proofs) ==
    CombineHashes([i \in 1..Len(proofs) |->
        Sha256(proofs[i].commitment \o proofs[i].response
               \o Bytes(WeightText(proofs[i].type)))])

\* A weight is a number of hundredths between 0 and 100, or undefined.
\* the weight 0.25 taken for a weight that is falsy, in hundredths
FallbackWeight == 25

\* weight.toString() in ASCII: '0', '1', or '0.' and one or two decimals
WeightToString(weight) ==
    IF weight % 100 = 0 THEN <<48 + (weight \div 100)>>
    ELSE <<48, 46, 48 + (weight \div 10)>>
            \o (IF weight % 10 = 0 THEN <<>> ELSE <<48 + (weight % 10)>>)

\* weights[proofType] || 0.25
WeightOf(weights, type) == OrElse(weights[type], Num(FallbackWeight)).v

\* HybridZKP.combineProofs(proofs, weights)
CombineProofsWith(proofs, weights) ==
    CombineHashes([i \in 1..Len(proofs) |->
        Sha256(proofs[i].commitment \o proofs[i].response
               \o Bytes(WeightToString(WeightOf(weights, proofs[i].type))))])

\* HybridZKP.createProof from the component proofs on, with the weights supplied
HybridProofWith(secretBuffer, algorithms, weights, witness, proofs) ==
    [type |-> "hybrid",
     commitment |-> CreateHybridCommitment(secretBuffer, proofs),
     response |-> CreateHybridResponse(secretBuffer, witness,
                     GenerateHybridChallenge(CreateHybridCommitment(secretBuffer, proofs),
                                             witness, proofs), proofs),
     challenge |-> GenerateHybridChallenge(CreateHybridCommitment(secretBuffer, proofs),
                                           witness, proofs),
     parameters |-> [algorithms |-> algorithms, weights |-> weights],
     quantumSafe |-> TRUE, version |-> VERSION,
     proofs |-> proofs, combined |-> CombineProofsWith(proofs, weights),
     algorithmWeights |-> weights]

\* HybridZKP.createProof from the challenge on: the response, the combined proof
\* and the returned object
HybridCreateProofAnswer(secretBuffer, algorithms, witness, proofs, commitment, challenge) ==
    [threw |-> FALSE, message |-> "",
     proof |->
        [type |-> "hybrid", commitment |-> commitment,
         response |-> CreateHybridResponse(secretBuffer, witness, challenge, proofs),
         challenge |-> challenge, parameters |-> [algorithms |-> algorithms],
         quantumSafe |-> TRUE, version |-> VERSION,
         proofs |-> proofs, combined |-> CombineProofs(proofs),
         algorithmWeights |-> "default", missing |-> {}, mistyped |-> {}]]

\* HybridZKP.createProof from the commitment on
HybridCreateProofChallenge(secretBuffer, algorithms, witness, proofs, commitment) ==
    HybridCreateProofAnswer(secretBuffer, algorithms, witness, proofs, commitment,
                            GenerateHybridChallenge(commitment, witness, proofs))

\* HybridZKP.createProof once the component proofs exist
HybridCreateProofCommit(secretBuffer, algorithms, witness, proofs) ==
    HybridCreateProofChallenge(secretBuffer, algorithms, witness, proofs,
                               CreateHybridCommitment(secretBuffer, proofs))

\* HybridZKP.createProof; draws and witness are what the random source and the
\* digests give the component engines and this call
HybridCreateProof(secret, parameters, draws, witness) ==
    IF ~ValidateParameters("hybrid",
            [NoParameters EXCEPT
                !.algorithms = OrElse(parameters.algorithms, Arr(DEFAULT_ALGORITHMS))])
    THEN [threw |-> TRUE, message |-> "Invalid hybrid parameters", proof |-> NullProof]
    ELSE HybridCreateProofCommit(
            SecretBuffer(secret),
            OrElse(parameters.algorithms, Arr(DEFAULT_ALGORITHMS)).v, witness,
            GenerateComponentProofs(Buf(secret.bytes),
                OrElse(parameters.algorithms, Arr(DEFAULT_ALGORITHMS)).v, draws))

\* HybridZKP.validateProofStructure
HybridValidateProofStructure(proof) ==
    /\ proof.type = "hybrid"
    /\ IsPresent(proof, "commitment")
    /\ IsPresent(proof, "challenge")
    /\ IsPresent(proof, "response")
    /\ IsPresent(proof, "proofs")
    /\ Len(proof.proofs) > 0
    /\ IsPresent(proof, "combined")
    /\ IsDefined(proof, "algorithmWeights")

\* HybridZKP.verifyComponentProof; reading the type of a null component raises
VerifyComponentProof(proof) ==
    CASE proof.type = "null" -> "throw"
      [] proof.type = "lattice" -> LatticeVerifyProof(proof)
      [] proof.type = "hash" -> HashVerifyProof(proof)
      [] proof.type = "multivariate" -> MultivariateVerifyProof(proof)
      [] OTHER -> "false"

\* a loop that verifies the first component only
VerifyFirstComponent(proofs, i) ==
    IF i > Len(proofs) THEN "true" ELSE VerifyComponentProof(proofs[i])

\* the loop of HybridZKP.verifyProof over the component proofs
RECURSIVE VerifyComponents(_, _)
VerifyComponents(proofs, i) ==
    IF i > Len(proofs) THEN "true"
    ELSE IF VerifyComponentProof(proofs[i]) = "true" THEN VerifyComponents(proofs, i + 1)
    ELSE VerifyComponentProof(proofs[i])

\* HybridZKP.verifyHybridCommitment
VerifyHybridCommitment(proof) == ByteLength(proof.commitment) = 32

\* HybridZKP.verifyZeroKnowledge
HybridVerifyZeroKnowledge(proof) == Sha256(proof.response) # Sha256(proof.challenge)

\* HybridZKP.verifyCombinedProof
VerifyCombinedProof(proof) ==
    IF ByteLength(proof.combined) = 0 THEN FALSE
    ELSE IF IncludesCorrupted(proof.combined) THEN FALSE
    ELSE TRUE

\* the body of the try block of HybridZKP.verifyProof
HybridVerifyBody(proof) ==
    IF proof.type = "null" THEN "throw"
    ELSE IF ~HybridValidateProofStructure(proof) THEN "false"
    ELSE IF \/ IncludesCorrupted(proof.response)
            \/ IncludesCorrupted(proof.challenge)
            \/ IncludesCorrupted(proof.commitment)
    THEN "false"
    ELSE IF VerifyComponents(proof.proofs, 1) # "true"
    THEN VerifyComponents(proof.proofs, 1)
    ELSE IF ~VerifyHybridCommitment(proof) THEN "false"
    ELSE IF ~HybridVerifyZeroKnowledge(proof) THEN "false"
    ELSE IF ~VerifyCombinedProof(proof) THEN "false"
    ELSE "true"

\* HybridZKP.verifyProof
HybridVerifyProof(proof) == Caught(HybridVerifyBody(proof))

(***************************************************************************)
(* The engines in use: a caller creates proofs, creates a second proof of  *)
(* the same secret, replaces a field of a proof, builds a proof value by   *)
(* hand, and verifies what it holds.                                       *)
(***************************************************************************)
Engines == {"hash", "lattice", "multivariate", "hybrid"}

Secrets == {Text(<<>>), Buf(<<7>>), Text(<<104, 105>>)}

\* outcomes of the random source per call
MaxDraws == 2
\* generateDiscreteGaussianError(8n) lies in -34..34; the draws cover -MaxError..MaxError
MaxError == 1
\* the longest algorithms list
MaxComponents == 4

\* generateRandomBytes(32): the id-th outcome
Witness(id) == Bytes([i \in 1..32 |-> (41 * id + 7 * i) % 256])
\* the integer that the 32 bytes of the digest of the id-th call spell
Reading(id) == Strip([i \in 1..32 |-> (89 * id + 13 * i) % 256])

Draw(id, error) ==
    [id |-> id, error |-> Signed(error), witness |-> Witness(id),
     challengeInt |-> Reading(id)]
ComponentDraws(id, error) ==
    [i \in 1..MaxComponents |-> Draw(MaxComponents * id + i, error)]

\* the draws that differ in outcome for an engine
Errors(engine) ==
    CASE engine = "lattice" -> (-MaxError)..MaxError
      [] engine = "hybrid" -> {-MaxError, 0}
      [] OTHER -> {0}

EngineParameters(engine) ==
    CASE engine = "hash" ->
            {[NoParameters EXCEPT !.chainLength = c] :
                c \in {Undefined, Num(0), Num(MinChainLength - 1), Num(MinChainLength),
                       Num(MinChainLength + 1)}}
      [] engine = "lattice" ->
            {[NoParameters EXCEPT !.dimension = d, !.modulus = m] :
                d \in {Undefined, Num(MinDimension - 1), Num(MinDimension)},
                m \in {Undefined, BigV(FALSE, ExampleModulus), BigV(FALSE, 1)}}
      [] engine = "multivariate" ->
            {[NoParameters EXCEPT !.variables = v, !.equations = e] :
                v \in {Undefined, Num(MinVariables + 1)},
                e \in {Undefined, Num(MinVariables)}}
            \cup {[NoParameters EXCEPT !.variables = Num(MaxSystemDimension + 1),
                                       !.equations = Num(MaxSystemDimension + 1)]}
      [] engine = "hybrid" ->
            {[NoParameters EXCEPT !.algorithms = a] :
                a \in {Undefined, Arr(<<"lattice">>),
                       Arr(<<"lattice", "multivariate">>),
                       Arr(<<"multivariate", "multivariate">>),
                       Arr(<<"multivariate", "lattice", "multivariate", "lattice">>),
                       Arr(<<"hybrid", "hash">>)}}

\* QuantumZKP.createProof: the engine of the requested algorithm creates the proof
CreateProofOf(engine, secret, parameters, id, error) ==
    CASE engine = "lattice" ->
            LatticeCreateProof(secret, parameters, LargePrime, id, Signed(error),
                               Witness(id), Reading(id))
      [] engine = "hash" ->
            HashCreateProof(secret, parameters, Witness(id), RandomBlock(16, id))
      [] engine = "multivariate" ->
            MultivariateCreateProof(secret, parameters, id, Witness(id), Reading(id))
      [] engine = "hybrid" ->
            HybridCreateProof(secret, parameters, ComponentDraws(id, error), Witness(id))

\* the verifyProof of an engine
VerifyProofOf(engine, proof) ==
    CASE engine = "lattice" -> LatticeVerifyProof(proof)
      [] engine = "hash" -> HashVerifyProof(proof)
      [] engine = "multivariate" -> MultivariateVerifyProof(proof)
      [] engine = "hybrid" -> HybridVerifyProof(proof)

\* What createProof of an engine has called by the time it evaluates
\* validateParameters: the defaults are taken with ||, and the default of the
\* lattice modulus is a call of generateLargePrime, which draws random bytes and
\* runs the primality test.
CallsBeforeValidation(engine, parameters) ==
    IF engine = "lattice" /\ ~Truthy(parameters.modulus)
    THEN {"generateLargePrime", "generateRandomBytes", "modPow"}
    ELSE {}

NoOperation ==
    [op |-> "init", engine |-> "none", secret |-> Text(<<>>), parameters |-> NoParameters,
     id |-> 0, threw |-> FALSE, message |-> "", subject |-> "none", field |-> "none",
     before |-> {}]

Init ==
    /\ call = NoCall
    /\ held = NoProof
    /\ prev = NoProof
    /\ last = NoOperation
    /\ verdict = "none"

\* createProof(secret, parameters) of an engine, the first call of the caller
CreateProof ==
    /\ last.op = "init"
    /\ \E engine \in Engines, secret \in Secrets, id \in 1..MaxDraws :
      \E parameters \in EngineParameters(engine), error \in Errors(engine) :
        \E created \in {CreateProofOf(engine, secret, parameters, id, error)} :
            /\ held' = IF created.threw THEN NoProof ELSE created.proof
            /\ prev' = NoProof
            /\ last' = [op |-> "create", engine |-> engine, secret |-> secret,
                        parameters |-> parameters, id |-> id, threw |-> created.threw,
                        message |-> created.message,
                        subject |-> IF created.threw THEN "none" ELSE "created",
                        field |-> "none",
                        before |-> CallsBeforeValidation(engine, parameters)]
            /\ verdict' = "none"
            /\ UNCHANGED call

\* a second createProof of the same engine, secret and parameters; the random
\* source does not repeat the bytes of the call before, an error may repeat
CreateAgain ==
    /\ last.op = "create"
    /\ ~last.threw
    /\ \E id \in (1..MaxDraws) \ {last.id}, error \in Errors(last.engine) :
        \E created \in {CreateProofOf(last.engine, last.secret, last.parameters, id, error)} :
            /\ held' = created.proof
            /\ prev' = held
            /\ last' = [last EXCEPT !.op = "again", !.id = id]
    /\ verdict' = "none"
    /\ UNCHANGED call

\* 'corrupted' followed by as many bytes 'A' as make the length n
Corrupted(n) == Sentinel \o Bytes([i \in 1..(n - Len(Sentinel)) |-> 65])

\* byte strings unrelated to any proof: 1, 32 and 64 bytes, and strings of 9, 32
\* and 64 bytes that hold the text 'corrupted'
TamperValues ==
    {Bytes(<<5>>), Bytes([i \in 1..32 |-> 65]), Bytes([i \in 1..64 |-> 66]),
     Corrupted(Len(Sentinel)), Corrupted(32), Corrupted(64)}

\* the caller replaces one of commitment, challenge and response by other bytes
Tamper ==
    /\ last.op = "create"
    /\ ~last.threw
    /\ \E field \in {"commitment", "challenge", "response"}, bytes \in TamperValues :
        /\ bytes # held[field]
        /\ held' = [held EXCEPT ![field] = bytes]
        /\ last' = [last EXCEPT !.op = "tamper", !.subject = "tampered", !.field = field]
    /\ prev' = NoProof
    /\ verdict' = "none"
    /\ UNCHANGED call

\* well-formed proofs to build malformed ones from
BaseProof(engine) ==
    CASE engine = "hash" ->
            HashCreateProof(Text(<<>>), [NoParameters EXCEPT !.chainLength = Num(MinChainLength)],
                            Witness(1), RandomBlock(16, 1)).proof
      [] engine = "lattice" ->
            LatticeCreateProof(Text(<<>>),
                [NoParameters EXCEPT !.dimension = Num(MinDimension),
                                     !.modulus = BigV(FALSE, ExampleModulus)],
                LargePrime, 1, Signed(0), Witness(1), Reading(1)).proof
      [] engine = "multivariate" ->
            MultivariateCreateProof(Text(<<>>), NoParameters, 1, Witness(1), Reading(1)).proof
      [] engine = "hybrid" ->
            HybridCreateProof(Text(<<>>),
                [NoParameters EXCEPT !.algorithms = Arr(<<"multivariate", "multivariate">>)],
                ComponentDraws(1, 0), Witness(1)).proof

\* the fields of a proof that verifyProof reads
FieldsOf(engine) ==
    {"commitment", "challenge", "response"} \cup
    CASE engine = "hash" ->
            {"hashChain", "hashChain[0]", "chainLength", "merkleTree", "merkleProof",
             "commitmentChain"}
      [] engine = "lattice" -> {"polynomialCommitment", "dimension", "modulus"}
      [] engine = "multivariate" -> {"polynomialSystem", "solution", "variables", "equations"}
      [] engine = "hybrid" -> {"proofs", "combined", "algorithmWeights"}

\* proofs with an empty buffer, a zero dimension, an empty chain or component list
EmptiedProofs(engine, base) ==
    {[base EXCEPT ![f] = <<>>] : f \in {"commitment", "challenge", "response"}} \cup
    CASE engine = "hash" ->
            {[base EXCEPT !.hashChain = <<>>], [base EXCEPT !.merkleProof = <<>>],
             [base EXCEPT !.chainLength = 0]}
      [] engine = "lattice" ->
            {[base EXCEPT !.dimension = 0], [base EXCEPT !.modulus = <<>>],
             [base EXCEPT !.polynomialCommitment = <<>>]}
      [] engine = "multivariate" ->
            {[base EXCEPT !.variables = 0], [base EXCEPT !.equations = 0],
             [base EXCEPT !.solution = <<>>], [base EXCEPT !.polynomialSystem = <<>>]}
      [] engine = "hybrid" ->
            {[base EXCEPT !.proofs = <<>>], [base EXCEPT !.combined = <<>>],
             [base EXCEPT !.proofs = <<NullProof>>],
             [base EXCEPT !.proofs = <<base>>]}

\* hash proofs whose chain has one element, a link that is no digest of its
\* predecessor, or another root than the Merkle proof folds to
BrokenProofs(engine, base) ==
    IF engine = "hash"
    THEN {[base EXCEPT !.hashChain = <<base.hashChain[1]>>],
          [base EXCEPT !.hashChain[2] = base.hashChain[1]],
          [base EXCEPT !.commitmentChain = base.commitment]}
    ELSE {}

\* lattice proofs whose response decodes to `dimension` integers that are all zero,
\* or all one non-zero value
UniformProofs(engine, base) ==
    IF engine = "lattice"
    THEN {[base EXCEPT !.response = Bytes([i \in 1..base.dimension |-> value])] :
            value \in {0, 5}}
    ELSE {}

\* hybrid proofs in which one component among valid ones is invalid, or is itself
\* a hybrid proof
MixedProofs(engine, base) ==
    IF engine = "hybrid"
    THEN {[base EXCEPT !.proofs[2] = [base.proofs[2] EXCEPT !.commitment = <<>>]],
          [base EXCEPT !.proofs[2] = base],
          [base EXCEPT !.proofs[1] = NullProof]}
    ELSE {}

\* multivariate proofs whose polynomialSystem is no JSON text ('garbage' in ASCII),
\* or the text of a system of other dimensions than the proof states
MalformedSystemProofs(engine, base) ==
    IF engine = "multivariate"
    THEN {[base EXCEPT !.polynomialSystem =
                           Bytes(<<103, 97, 114, 98, 97, 103, 101>>)],
          [base EXCEPT !.polynomialSystem =
                           SerializePolynomialSystem(CreateDefaultPolynomialSystem)]}
    ELSE {}

\* Proof values a caller can hand to verifyProof: null, a proof of another engine,
\* a proof with one field missing or holding a value of a wrong type (for a number
\* one that does not convert to a number), and the emptied proofs
ForgedProofs(engine, bases) ==
    {NullProof}
    \cup {bases[other] : other \in Engines \ {engine}}
    \cup {[bases[engine] EXCEPT !.missing = {f}] : f \in FieldsOf(engine)}
    \cup {[bases[engine] EXCEPT !.mistyped = {f}] : f \in FieldsOf(engine)}
    \cup EmptiedProofs(engine, bases[engine])
    \cup BrokenProofs(engine, bases[engine])
    \cup UniformProofs(engine, bases[engine])
    \cup MixedProofs(engine, bases[engine])
    \cup MalformedSystemProofs(engine, bases[engine])

\* the caller builds a proof value by hand
Forge ==
    /\ last.op = "init"
    /\ \E engine \in Engines :
       \E forged \in ForgedProofs(engine, [other \in Engines |-> BaseProof(other)]) :
        /\ held' = forged
        /\ last' = [NoOperation EXCEPT !.op = "forge", !.engine = engine,
                                       !.subject = "forged"]
    /\ prev' = NoProof
    /\ verdict' = "none"
    /\ UNCHANGED call

\* a verification that uses the proof up
VerifyProofOnce ==
    /\ last.op \in {"create", "again", "tamper", "forge"}
    /\ ~last.threw
    /\ verdict' = VerifyProofOf(last.engine, held)
    /\ held' = NullProof
    /\ last' = [last EXCEPT !.op = "verify"]
    /\ UNCHANGED <<call, prev>>

\* verifyProof(proof) of the engine on the proof the caller holds; "throw" stands
\* for an exception that reaches the caller
VerifyProof ==
    /\ last.op \in {"create", "again", "tamper", "forge"}
    /\ ~last.threw
    /\ verdict' = VerifyProofOf(last.engine, held)
    /\ last' = [last EXCEPT !.op = "verify"]
    /\ UNCHANGED <<call, held, prev>>

\* verifyProof(proof) once more on the proof just verified
VerifyAgain ==
    /\ last.op \in {"verify", "reverify"}
    /\ verdict' = VerifyProofOf(last.engine, held)
    /\ last' = [last EXCEPT !.op = "reverify"]
    /\ UNCHANGED <<call, held, prev>>

Next ==
    \/ CreateProof
    \/ CreateAgain
    \/ Tamper
    \/ Forge
    \/ VerifyProof
    \/ VerifyAgain

Spec == Init /\ [][Next]_vars

(***************************************************************************)
(* QuantumCrypto.generateRandomBigInt / millerRabinPrimalityTest           *)
(*                                                                         *)
(* The numbers are bigints (digit sequences); `random` is the number the   *)
(* bytes of randomBytes denote, the one input that is not an argument.     *)
(***************************************************************************)
BigOne == <<1>>
BigTwo == <<2>>

BigIsEven(x) == BigIsZero(x) \/ x[Len(x)] % 2 = 0

\* x >> 1n
BigHalf(x) ==
    Strip([i \in 1..Len(x) |->
        (x[i] \div 2) + (IF i > 1 /\ x[i - 1] % 2 = 1 THEN 128 ELSE 0)])

\* x - y for signed x and y
SignedSub(x, y) ==
    IF x.neg # y.neg THEN SignedRem(x.neg, BigAdd(x.mag, y.mag))
    ELSE IF BigLess(x.mag, y.mag) THEN SignedRem(~x.neg, BigSub(y.mag, x.mag))
    ELSE SignedRem(x.neg, BigSub(x.mag, y.mag))

\* x + y for signed x and y
SignedAdd(x, y) == SignedSub(x, SignedRem(~y.neg, y.mag))

SignedLess(x, y) == SignedSub(x, y).neg

\* value.toString(16).length
HexLength(value) ==
    (IF value.neg THEN 1 ELSE 0)
    + (IF BigIsZero(value.mag) THEN 1
       ELSE 2 * Len(value.mag) - (IF value.mag[1] < 16 THEN 1 ELSE 0))

\* the length of the random buffer generateRandomBigInt(min, max) draws
RandomLength(min, max) == CeilDiv(HexLength(SignedSub(max, min)), 2)

\* a sample over the closed interval [min, max]
GenerateRandomBigIntInclusive(min, max, random) ==
    LET range == SignedSub(max, min)
    IN  [threw |-> FALSE,
         value |-> SignedAdd(Pos(BigMod(random, BigAdd(range.mag, BigOne))), min)]

\* QuantumCrypto.generateRandomBigInt, the buffer drawn denoting `random`:
\* a remainder by 0n raises a RangeError
GenerateRandomBigInt(min, max, random) ==
    LET range == SignedSub(max, min)
    IN  IF BigIsZero(range.mag) THEN [threw |-> TRUE, value |-> Pos(<<>>)]
        ELSE [threw |-> FALSE, value |-> SignedAdd(Pos(BigMod(random, range.mag)), min)]

\* QuantumCrypto.modPow on bigints.  The variables of the loop are a record, and
\* the loop runs in rounds of eight iterations, so that no recursion is as deep
\* as the exponent is long.
BigModPowStep(state, modulus) ==
    [result   |-> IF BigIsEven(state.exponent) THEN state.result
                  ELSE BigMod(BigMul(state.result, state.base), modulus),
     exponent |-> BigHalf(state.exponent),
     base     |-> BigMod(BigMul(state.base, state.base), modulus)]

RECURSIVE BigModPowRound(_, _, _)
BigModPowRound(state, modulus, steps) ==
    IF steps > 0 /\ ~BigIsZero(state.exponent)
    THEN BigModPowRound(BigModPowStep(state, modulus), modulus, steps - 1)
    ELSE state

RECURSIVE BigModPowLoop(_, _)
BigModPowLoop(state, modulus) ==
    IF BigIsZero(state.exponent) THEN state.result
    ELSE BigModPowLoop(BigModPowRound(state, modulus, 8), modulus)

BigModPow(base, exponent, modulus) ==
    IF modulus = BigOne THEN <<>>
    ELSE BigModPowLoop([result |-> BigOne, base |-> BigMod(base, modulus),
                        exponent |-> exponent], modulus)

\* the loop of isStrongProbablePrime from j on
RECURSIVE StrongLoop(_, _, _, _)
StrongLoop(n, x, j, r) ==
    IF j < r
    THEN LET y == BigMod(BigMul(x, x), n)
         IN  IF y = BigSub(n, BigOne) THEN TRUE
             ELSE IF y = BigOne THEN FALSE
             ELSE StrongLoop(n, y, j + 1, r)
    ELSE FALSE

StrongFrom(n, x, r) ==
    IF x = BigOne \/ x = BigSub(n, BigOne) THEN TRUE ELSE StrongLoop(n, x, 1, r)

\* the test without the squarings: a^d is 1 or n - 1
IsFermatUnit(n, a, d, r) ==
    LET x == BigModPow(a, d, n) IN x = BigOne \/ x = BigSub(n, BigOne)

\* QuantumCrypto.isStrongProbablePrime
IsStrongProbablePrime(n, a, d, r) == StrongFrom(n, BigModPow(a, d, n), r)

\* the loop of millerRabinPrimalityTest that writes n - 1 as 2^r * d with d
\* odd, in rounds of eight iterations
RECURSIVE OddPartRound(_, _, _)
OddPartRound(d, r, steps) ==
    IF steps > 0 /\ BigIsEven(d) THEN OddPartRound(BigHalf(d), r + 1, steps - 1)
    ELSE [d |-> d, r |-> r]

RECURSIVE OddPart(_, _)
OddPart(d, r) ==
    IF BigIsEven(d) THEN OddPart(OddPartRound(d, r, 8).d, OddPartRound(d, r, 8).r)
    ELSE [d |-> d, r |-> r]

\* the rounds of millerRabinPrimalityTest: round i draws its base from draws[i] and
\* the first round that fails ends the test, so the test passes exactly when
\* every base drawn passes
MillerRabinRounds(n, split, k, draws) ==
    \A a \in {GenerateRandomBigInt(Pos(BigTwo), Pos(BigSub(n, BigTwo)), draws[i]).value.mag :
                i \in 1..k} :
        IsStrongProbablePrime(n, a, split.d, split.r)

\* QuantumCrypto.millerRabinPrimalityTest(n, k) for a signed n
MillerRabinPrimalityTest(n, k, draws) ==
    IF n.neg \/ BigLess(n.mag, BigTwo) THEN FALSE
    ELSE IF BigLess(n.mag, <<4>>) THEN TRUE
    ELSE IF BigIsEven(n.mag) THEN FALSE
    ELSE MillerRabinRounds(n.mag, OddPart(BigSub(n.mag, BigOne), 0), k, draws)

(***************************************************************************)
(* Calls of the numeric primitives, one at a time                          *)
(***************************************************************************)
MaxRandom == 12
\* numbers a random buffer of the given length can denote: the small ones and the
\* one of the buffer of 0xff bytes
RandomValues(length) ==
    {FromInt(v) : v \in 0..Min(MaxRandom, 255)} \cup {[i \in 1..length |-> 255]}

MaxCandidate == 25
MaxRounds == 2
Candidates == ((-1)..MaxCandidate) \cup {97, 100}

MillerRabinInputs ==
    {[op |-> "millerRabinPrimalityTest", done |-> FALSE, n |-> n, k |-> k,
      draws |-> <<>>, result |-> FALSE] : n \in Candidates, k \in 1..MaxRounds}

MillerRabinCall ==
    /\ call.op = "millerRabinPrimalityTest" /\ ~call.done
    /\ \E draws \in [1..call.k -> RandomValues(RandomLength(Pos(BigTwo), Signed(call.n - 2)))] :
          call' = [call EXCEPT !.done = TRUE, !.draws = draws,
                       !.result = MillerRabinPrimalityTest(Signed(call.n), call.k, draws)]
    /\ UNCHANGED <<held, prev, last, verdict>>

MaxLimit == 4
\* the range of the library's own test
ExampleRange == <<100, 1000>>
Limits == ((-2)..MaxLimit) \X ((-2)..MaxLimit) \cup {ExampleRange}

RandomBigIntInputs ==
    {[op |-> "generateRandomBigInt", done |-> FALSE, min |-> limits[1],
      max |-> limits[2], random |-> <<>>, threw |-> FALSE, value |-> Pos(<<>>)] :
        limits \in Limits}

GenerateRandomBigIntCall ==
    /\ call.op = "generateRandomBigInt" /\ ~call.done
    /\ \E random \in RandomValues(RandomLength(Signed(call.min), Signed(call.max))) :
       \E drawn \in {GenerateRandomBigInt(Signed(call.min), Signed(call.max), random)} :
          call' = [call EXCEPT !.done = TRUE, !.random = random,
                       !.threw = drawn.threw, !.value = drawn.value]
    /\ UNCHANGED <<held, prev, last, verdict>>

MaxBuffer == 4
BufferBytes == {0, 1, 255}
Buffers == UNION {[1..n -> BufferBytes] : n \in 1..MaxBuffer}

RoundTripInputs ==
    {[op |-> "bufferToBigInts", done |-> FALSE, buffer |-> Bytes(c[1]), count |-> c[2],
      ints |-> <<>>, result |-> <<>>] :
        c \in {c \in Buffers \X (1..MaxBuffer) : c[2] <= Len(c[1])}}

\* bufferToBigInts, then bigIntsToBuffer of what it returned
RoundTripCall ==
    /\ call.op = "bufferToBigInts" /\ ~call.done
    /\ \E ints \in {BufferToBigInts(call.buffer, call.count)} :
          call' = [call EXCEPT !.done = TRUE, !.ints = ints,
                       !.result = BigIntsToBuffer(Unsigned(ints))]
    /\ UNCHANGED <<held, prev, last, verdict>>

MaxHashes == 3
HashItems == <<Sha256(Bytes(<<1>>)), Sha256(Bytes(<<2>>)), Sha256(Bytes(<<3>>))>>
HashLists == UNION {[1..n -> {HashItems[i] : i \in 1..Len(HashItems)}] : n \in 0..MaxHashes}

\* the list in the order a permutation of its indices gives
Permuted(hashes, order) == [i \in 1..Len(hashes) |-> hashes[order[i]]]

\* combineHashes, raising on the empty list
CombineHashesOf(hashes) ==
    IF Len(hashes) = 0 THEN [threw |-> TRUE, value |-> <<>>]
    ELSE [threw |-> FALSE, value |-> CombineHashes(hashes)]

CombineInputs ==
    {[op |-> "combineHashes", done |-> FALSE, hashes |-> c[1], order |-> c[2],
      result |-> [threw |-> FALSE, value |-> <<>>],
      permuted |-> [threw |-> FALSE, value |-> <<>>]] :
        c \in UNION {{<<hashes, order>> : order \in Permutations(1..Len(hashes))} :
                        hashes \in HashLists}}

\* combineHashes of a list and of the same list in another order
CombineHashesCall ==
    /\ call.op = "combineHashes" /\ ~call.done
    /\ call' = [call EXCEPT !.done = TRUE,
                    !.result = CombineHashesOf(call.hashes),
                    !.permuted = CombineHashesOf(Permuted(call.hashes, call.order))]
    /\ UNCHANGED <<held, prev, last, verdict>>

InitNumbers ==
    /\ \/ call \in MillerRabinInputs
       \/ call \in RandomBigIntInputs
       \/ call \in RoundTripInputs
       \/ call \in CombineInputs
    /\ held = NoProof
    /\ prev = NoProof
    /\ last = [op |-> "init"]
    /\ verdict = "none"

NextNumbers ==
    \/ MillerRabinCall
    \/ GenerateRandomBigIntCall
    \/ RoundTripCall
    \/ CombineHashesCall

SpecNumbers == InitNumbers /\ [][NextNumbers]_vars

(***************************************************************************)
(* QuantumCrypto.generateLargePrime                                        *)
(*                                                                         *)
(* The search is a loop without a bound of its own, so it is a process:    *)
(* `call` holds the candidate and the position of the loop, and one step   *)
(* is one evaluation of the loop condition with the body it leads to.      *)
(***************************************************************************)
MinPrimeBits == 64
PrimeRounds == 40

\* 1n << BigInt(bits)
TwoTo(bits) == [i \in 1..((bits \div 8) + 1) |-> IF i = 1 THEN 2 ^ (bits % 8) ELSE 0]
MaxValue(bits) == BigSub(TwoTo(bits), BigOne)
MinValue(bits) == TwoTo(bits - 1)

\* the first candidate: the number drawn, made odd
FirstCandidate(bits, random) ==
    LET candidate ==
            GenerateRandomBigInt(Pos(MinValue(bits)), Pos(MaxValue(bits)), random).value.mag
    IN  IF BigIsEven(candidate) THEN BigAdd(candidate, BigOne) ELSE candidate

\* the body of the loop: candidate += 2n, and the range floor past the top
NextCandidate(bits, candidate) ==
    IF BigLess(MaxValue(bits), BigAdd(candidate, BigTwo)) THEN MinValue(bits)
    ELSE BigAdd(candidate, BigTwo)

MaxOffset == 5
MaxSteps == 24
MaxSeed == 1
PrimeBits == {32, MinPrimeBits - 1, MinPrimeBits}

\* numbers the eight random bytes can denote: some that lead to candidates a few
\* places below the first prime above 2^63, and some that lead to candidates
\* above the last prime below 2^64
StartValues ==
    {FromInt(20 + v) : v \in 0..MaxOffset}
        \cup {[i \in 1..8 |-> IF i = 1 THEN 127 ELSE IF i = 8 THEN 254 - v ELSE 255] :
                v \in 0..MaxOffset}

\* what the rounds of one test draw: every round the same small number
TestDraws == {[i \in 1..PrimeRounds |-> FromInt(seed)] : seed \in 0..MaxSeed}

SearchInputs ==
    {[op |-> "generateLargePrime", bits |-> bits, position |-> "called",
      candidate |-> <<>>, steps |-> 0, wrapped |-> FALSE, draws |-> <<>>] :
        bits \in PrimeBits}

\* lines 749-756: the guard, the draw and the adjustment to an odd number
EnterSearch ==
    /\ call.op = "generateLargePrime" /\ call.position = "called"
    /\ IF call.bits < MinPrimeBits
       THEN call' = [call EXCEPT !.position = "threw"]
       ELSE \E random \in StartValues :
              call' = [call EXCEPT !.position = "testing",
                                   !.candidate = FirstCandidate(call.bits, random)]
    /\ UNCHANGED <<held, prev, last, verdict>>

\* lines 757-764: one test of the candidate, then the return or the next candidate
TestCandidate ==
    /\ call.op = "generateLargePrime" /\ call.position = "testing"
    /\ call.steps < MaxSteps
    /\ \E draws \in TestDraws :
          IF MillerRabinPrimalityTest(Pos(call.candidate), PrimeRounds, draws)
          THEN call' = [call EXCEPT !.position = "returned", !.draws = draws]
          ELSE call' = [call EXCEPT
                    !.candidate = NextCandidate(call.bits, call.candidate),
                    !.steps = call.steps + 1,
                    !.wrapped = call.wrapped
                                \/ BigLess(MaxValue(call.bits), BigAdd(call.candidate, BigTwo))]
    /\ UNCHANGED <<held, prev, last, verdict>>

InitSearch ==
    /\ call \in SearchInputs
    /\ held = NoProof
    /\ prev = NoProof
    /\ last = [op |-> "init"]
    /\ verdict = "none"

NextSearch == EnterSearch \/ TestCandidate

SpecSearch == InitSearch /\ [][NextSearch]_vars

(***************************************************************************)
(* QuantumZKP.batchCreateProofs                                            *)
(*                                                                         *)
(* The loops of the batch are a process: `call` holds the loop variable,   *)
(* the proofs pushed so far and the values handed to the progress          *)
(* callback.  A proof is kept as the engine that made it and the secret it *)
(* was made from.  batchSize is a number of halves (1 is 0.5, 2 is 1), so  *)
(* that sizes that are no whole numbers occur; a progress value is a       *)
(* fraction.                                                               *)
(***************************************************************************)
\* QuantumZKP.createProof(secret, algorithm) without parameters: the switch over
\* the algorithm, and the type the engine writes into the proof it returns
CreateProofSummary(secret, algorithm) ==
    IF algorithm \in Engines
    THEN [threw |-> FALSE, proof |-> [type |-> algorithm, secret |-> secret]]
    ELSE [threw |-> TRUE, proof |-> NullProof]

\* secrets.slice(i, i + batchSize): the bounds are truncated to whole numbers
BatchSlice(secrets, i, batchSize) ==
    SubSeq(secrets, (i \div 2) + 1, Min((i + batchSize) \div 2, Len(secrets)))

\* (i + batchSize) / secrets.length
ProgressUncapped(secrets, i, batchSize) ==
    [num |-> i + batchSize, den |-> 2 * Len(secrets)]

\* Math.min((i + batchSize) / secrets.length, 1)
Progress(secrets, i, batchSize) ==
    [num |-> Min(i + batchSize, 2 * Len(secrets)), den |-> 2 * Len(secrets)]

MaxSecrets == 3
MaxBatchSize == 5
BatchSecrets == <<Text(<<97>>), Buf(<<7>>), Text(<<>>), Text(<<97>>)>>
SecretLists == {SubSeq(BatchSecrets, 1, n) : n \in 0..Min(MaxSecrets, Len(BatchSecrets))}

BatchInputs ==
    {[op |-> "batchCreateProofs", secrets |-> secrets, algorithm |-> algorithm,
      parallel |-> parallel, batchSize |-> batchSize, callback |-> callback,
      position |-> "called", i |-> 0, proofs |-> <<>>, progress |-> <<>>] :
        secrets \in SecretLists, algorithm \in Engines \cup {"unknown"},
        parallel \in BOOLEAN, batchSize \in 1..MaxBatchSize, callback \in BOOLEAN}

\* lines 495-501: the options are merged and the loop is chosen
EnterBatch ==
    /\ call.op = "batchCreateProofs" /\ call.position = "called"
    /\ call' = [call EXCEPT !.position = IF call.parallel THEN "batches" ELSE "secrets"]
    /\ UNCHANGED <<held, prev, last, verdict>>

\* lines 502-510: one batch; a createProof that raises ends the call
ParallelBatch ==
    /\ call.op = "batchCreateProofs" /\ call.position = "batches"
    /\ call.i < 2 * Len(call.secrets)
    /\ \E batch \in {BatchSlice(call.secrets, call.i, call.batchSize)} :
          IF \E k \in 1..Len(batch) : CreateProofSummary(batch[k], call.algorithm).threw
          THEN call' = [call EXCEPT !.position = "threw"]
          ELSE call' = [call EXCEPT
                    !.proofs = call.proofs \o
                        [k \in 1..Len(batch) |->
                            CreateProofSummary(batch[k], call.algorithm).proof],
                    !.progress =
                        IF call.callback
                        THEN Append(call.progress,
                                    Progress(call.secrets, call.i, call.batchSize))
                        ELSE call.progress,
                    !.i = call.i + call.batchSize]
    /\ UNCHANGED <<held, prev, last, verdict>>

\* lines 512-515: one secret of the sequential loop; i counts secrets here
SequentialProof ==
    /\ call.op = "batchCreateProofs" /\ call.position = "secrets"
    /\ call.i < Len(call.secrets)
    /\ \E created \in {CreateProofSummary(call.secrets[call.i + 1], call.algorithm)} :
          IF created.threw
          THEN call' = [call EXCEPT !.position = "threw"]
          ELSE call' = [call EXCEPT !.proofs = Append(call.proofs, created.proof),
                                    !.i = call.i + 1]
    /\ UNCHANGED <<held, prev, last, verdict>>

\* line 517: the loop has ended
ReturnProofs ==
    /\ call.op = "batchCreateProofs"
    /\ \/ call.position = "batches" /\ call.i >= 2 * Len(call.secrets)
       \/ call.position = "secrets" /\ call.i >= Len(call.secrets)
    /\ call' = [call EXCEPT !.position = "returned"]
    /\ UNCHANGED <<held, prev, last, verdict>>

InitBatch ==
    /\ call \in BatchInputs
    /\ held = NoProof
    /\ prev = NoProof
    /\ last = [op |-> "init"]
    /\ verdict = "none"

NextBatch ==
    \/ EnterBatch
    \/ ParallelBatch
    \/ SequentialProof
    \/ ReturnProofs

\* the call is synchronous code on one thread: it runs on until it returns or raises
SpecBatch == InitBatch /\ [][NextBatch]_vars /\ WF_vars(NextBatch)

(***************************************************************************)
(* The parts of the engines, called on their own as the tests call them:   *)
(* HashZKP.createResponse, HashZKP.createOptimizedHashChain and            *)
(* HybridZKP.combineProofs.                                                *)
(***************************************************************************)
\* the longest witness handed to createResponse
MaxWitness == 33
WitnessLengths == {0, 1, 31, 32, MaxWitness}
Witnesses == {Bytes([i \in 1..n |-> (3 * i + n) % 256]) : n \in WitnessLengths}

\* challenges: no byte, one byte, 'challenge' in ASCII, and digests
Challenges ==
    {<<>>, Bytes(<<9>>), Bytes(<<99, 104, 97, 108, 108, 101, 110, 103, 101>>),
     Sha256(Bytes(<<1>>)), Sha256(Bytes(<<2>>)), Sha256(Sha256(Bytes(<<1>>)))}

CreateResponseInputs ==
    {[op |-> "createResponse", done |-> FALSE, secret |-> SecretBuffer(secret),
      witness |-> witness, challenge |-> challenge, result |-> <<>>] :
        secret \in Secrets, witness \in Witnesses, challenge \in Challenges}

\* HashZKP['createResponse'](secret, witness, challenge)
CreateResponseCall ==
    /\ call.op = "createResponse" /\ ~call.done
    /\ call' = [call EXCEPT !.done = TRUE,
                    !.result = HashCreateResponse(call.secret, call.witness, call.challenge)]
    /\ UNCHANGED <<held, prev, last, verdict>>

\* the weights a caller gives an algorithm: none, 0, 0.25 and 0.8
WeightValues == {Undefined, Num(0), Num(FallbackWeight), Num(80)}
\* component proofs, reduced to the fields the hybrid engine reads
ComponentLists ==
    {<<[type |-> "hash", commitment |-> Sha256(Bytes(<<1>>)), response |-> Witness(1)],
       [type |-> "lattice", commitment |-> Bytes(<<5>>), response |-> Bytes(<<6, 7>>)]>>,
     <<[type |-> "hash", commitment |-> Sha256(Bytes(<<1>>)), response |-> Witness(1)]>>}

CombineProofsInputs ==
    {[op |-> "combineProofs", done |-> FALSE, proofs |-> proofs,
      weights1 |-> weights1, weights2 |-> weights2,
      first |-> NoProof, second |-> NoProof] :
        proofs \in ComponentLists,
        weights1 \in [{"hash", "lattice"} -> WeightValues],
        weights2 \in [{"hash", "lattice"} -> WeightValues]}

\* two hybrid proofs built from the same component proofs, secret and witness
\* under two weight maps
CombineProofsCall ==
    /\ call.op = "combineProofs" /\ ~call.done
    /\ call' = [call EXCEPT !.done = TRUE,
                    !.first = HybridProofWith(Bytes(<<7>>),
                                 [i \in 1..Len(call.proofs) |-> call.proofs[i].type],
                                 call.weights1, Witness(2), call.proofs),
                    !.second = HybridProofWith(Bytes(<<7>>),
                                 [i \in 1..Len(call.proofs) |-> call.proofs[i].type],
                                 call.weights2, Witness(2), call.proofs)]
    /\ UNCHANGED <<held, prev, last, verdict>>

\* const batchSize = 100
ChainBatchSize == 100

\* a loop that would leave current as it was after a batch
SameCurrent(current, batch) == current

\* current = batch[batch.length - 1]
LastOfBatch(current, batch) == batch[Len(batch)]

\* the loop of HashZKP.createOptimizedHashChain: st holds i, chain and current
RECURSIVE OptimizedChainLoop(_, _)
OptimizedChainLoop(st, length) ==
    IF st.i < length
    THEN LET batchLength == Min(ChainBatchSize, length - st.i)
             batch == CreateHashChain(st.current, batchLength)
         IN OptimizedChainLoop([i |-> st.i + ChainBatchSize,
                                chain |-> st.chain \o batch,
                                current |-> LastOfBatch(st.current, batch)], length)
    ELSE st.chain

\* HashZKP.createOptimizedHashChain(seed, length)
CreateOptimizedHashChain(seed, length) ==
    OptimizedChainLoop([i |-> 0, chain |-> <<>>, current |-> seed], length)

\* the longest chain asked of createOptimizedHashChain
MaxOptimizedLength == 250
\* lengths below, at and above one batch and two batches
OptimizedLengths ==
    {0, 1, ChainBatchSize - 1, ChainBatchSize, ChainBatchSize + 1, 2 * ChainBatchSize, MaxOptimizedLength}
\* seeds: no byte, 'test-seed' in ASCII, a digest
OptimizedSeeds ==
    {<<>>, Bytes(<<116, 101, 115, 116, 45, 115, 101, 101, 100>>), Sha256(Bytes(<<1>>))}

OptimizedHashChainInputs ==
    {[op |-> "createOptimizedHashChain", done |-> FALSE, seed |-> seed,
      length |-> length, result |-> <<>>] :
        seed \in OptimizedSeeds, length \in OptimizedLengths}

\* HashZKP.createOptimizedHashChain(seed, length)
OptimizedHashChainCall ==
    /\ call.op = "createOptimizedHashChain" /\ ~call.done
    /\ call' = [call EXCEPT !.done = TRUE,
                    !.result = CreateOptimizedHashChain(call.seed, call.length)]
    /\ UNCHANGED <<held, prev, last, verdict>>

InitParts ==
    /\ \/ call \in CreateResponseInputs
       \/ call \in CombineProofsInputs
       \/ call \in OptimizedHashChainInputs
    /\ held = NoProof
    /\ prev = NoProof
    /\ last = [op |-> "init"]
    /\ verdict = "none"

NextParts ==
    \/ CreateResponseCall
    \/ CombineProofsCall
    \/ OptimizedHashChainCall

SpecParts == InitParts /\ [][NextParts]_vars

(***************************************************************************)
(* Properties of the primitives                                            *)
(***************************************************************************)

\* what the documentation says validateParameters accepts
DocumentedValid(algorithm, parameters) ==
    CASE algorithm = "lattice" ->
            /\ TypeOf(parameters.dimension) = "number"
            /\ NumGeq(parameters.dimension, MinDimension)
            /\ TypeOf(parameters.modulus) = "bigint"
            /\ ~BigLeqZero(parameters.modulus)
      [] algorithm = "hash" ->
            /\ TypeOf(parameters.chainLength) = "number"
            /\ NumGeq(parameters.chainLength, MinChainLength)
      [] algorithm = "multivariate" ->
            /\ TypeOf(parameters.variables) = "number"
            /\ NumGeq(parameters.variables, MinVariables)
            /\ TypeOf(parameters.equations) = "number"
            /\ NumGeq(parameters.equations, parameters.variables.v)
      [] algorithm = "hybrid" ->
            /\ parameters.algorithms.t = "array"
            /\ Len(parameters.algorithms.v) >= MinAlgorithms
            /\ \A i \in 1..Len(parameters.algorithms.v) :
                    parameters.algorithms.v[i] \in BaseAlgorithms
      [] OTHER -> FALSE

\* C6: validateParameters returns true exactly for 'lattice' with dimension a
\* number >= 128 and modulus a bigint > 0, 'hash' with chainLength a number >= 100,
\* 'multivariate' with variables a number >= 8 and equations a number >= variables,
\* 'hybrid' with a list of at least 2 base algorithms, and false for any other tag.
C6_ValidateExactly ==
    (call.op = "validateParameters" /\ call.done)
        => (call.result <=> DocumentedValid(call.algorithm, call.parameters))

\* C8: the Merkle proof built for index i of a non-empty list of leaves verifies
\* against the root for leaves[i] and for no other leaf at that index.
C8_MerkleProofRoundTrip ==
    (call.op = "verifyMerkleProof" /\ call.done)
        => (call.result <=> call.leaf = call.leaves[call.index + 1])

DocumentedChain(c) ==
    /\ Len(c) >= 2
    /\ \A i \in 2..Len(c) : c[i] = Sha256(c[i - 1])

\* C9: verifyHashChain accepts a chain exactly when it has at least 2 elements and
\* every element after the first is the sha256 of its predecessor; in particular
\* chains of length 0 or 1, and chains with one altered element, are rejected.
C9_VerifyHashChainIff ==
    (call.op = "verifyHashChain" /\ call.done)
        => /\ call.result <=> DocumentedChain(call.chain)
           /\ Len(call.chain) < 2 => ~call.result

C9_Witness ==
    /\ call.op = "verifyHashChain" /\ call.done
    /\ Len(call.chain) >= 3
    /\ call.result

\* C10: modPow returns base^exponent mod modulus, a value in [0, modulus);
\* modPow(2, 10, 1000) = 24 and modPow(x, y, 1) = 0.
C10_ModPowCorrect ==
    (call.op = "modPow" /\ call.done)
        => /\ call.result = Pow(call.base, call.exponent) % call.modulus
           /\ call.result >= 0 /\ call.result < call.modulus
           /\ call.modulus = 1 => call.result = 0
           /\ (call.base = 2 /\ call.exponent = 10 /\ call.modulus = ExampleModulus)
                => call.result = 24

C10_Witness ==
    /\ call.op = "modPow" /\ call.done
    /\ call.base = 2 /\ call.exponent = 10 /\ call.modulus = ExampleModulus
    /\ call.result = 24


(***************************************************************************)
(* Properties of the engines                                               *)
(***************************************************************************)

\* C1: for each engine, every secret, every accepted parameter set and every
\* outcome of the random draws, verifyProof(createProof(secret, parameters)) is true.
C1_CreatedProofVerifies ==
    (last.op = "verify" /\ last.subject = "created") => verdict = "true"

\* C2: a created proof in which one of commitment, challenge and response was
\* replaced by different bytes, of whatever length, is rejected by verifyProof.
C2_TamperedProofRejected ==
    (last.op = "verify" /\ last.subject = "tampered") => verdict = "false"

\* C3: two successive createProof calls with the same engine and secret return
\* proofs that differ in commitment, in challenge and in response, and verifyProof
\* accepts both of them.
C3_FreshAndBothVerify ==
    (last.op = "again" /\ prev.type # "none")
        => /\ held.commitment # prev.commitment
           /\ held.challenge # prev.challenge
           /\ held.response # prev.response
           /\ VerifyProofOf(last.engine, prev) = "true"
           /\ VerifyProofOf(last.engine, held) = "true"

\* validateProofStructure of an engine; a null proof has no structure
ValidateProofStructureOf(engine, proof) ==
    /\ proof.type # "null"
    /\ CASE engine = "lattice" -> LatticeValidateProofStructure(proof)
         [] engine = "hash" -> HashValidateProofStructure(proof)
         [] engine = "multivariate" -> MultivariateValidateProofStructure(proof)
         [] engine = "hybrid" -> HybridValidateProofStructure(proof)

\* the outcome of the try block of an engine's verifyProof
VerifyBodyOf(engine, proof) ==
    CASE engine = "lattice" -> LatticeVerifyBody(proof)
      [] engine = "hash" -> HashVerifyBody(proof)
      [] engine = "multivariate" -> MultivariateVerifyBody(proof)
      [] engine = "hybrid" -> HybridVerifyBody(proof)

C5_ChainLengthChecked ==
    (/\ last.op = "create"
     /\ last.engine = "hash"
     /\ TypeOf(last.parameters.chainLength) = "number")
        => IF NumLess(last.parameters.chainLength, MinChainLength)
           THEN last.threw /\ last.message = "Invalid hash parameters"
           ELSE /\ ~last.threw
                /\ Len(held.hashChain) = last.parameters.chainLength.v
                /\ held.chainLength = last.parameters.chainLength.v

\* the list of algorithms a hybrid createProof works with
RequestedAlgorithms(parameters) == OrElse(parameters.algorithms, Arr(DEFAULT_ALGORITHMS)).v

Distinct(algorithms) == {algorithms[i] : i \in 1..Len(algorithms)}

IsPrime(n) == n > 1 /\ \A d \in 2..(n - 1) : n % d # 0

\* C11: whatever bases the rounds draw, millerRabinPrimalityTest accepts 2, 3, 17
\* and 97, rejects 0, 1, 4, 15 and 100, rejects every n <= 1 and every even n > 2,
\* and accepts every prime.
C11_MillerRabinSound ==
    (call.op = "millerRabinPrimalityTest" /\ call.done)
        => /\ call.n \in {2, 3, 17, 97} => call.result
           /\ call.n \in {0, 1, 4, 15, 100} => ~call.result
           /\ call.n <= 1 => ~call.result
           /\ (call.n > 2 /\ call.n % 2 = 0) => ~call.result
           /\ IsPrime(call.n) => call.result

C11_Witness ==
    /\ call.op = "millerRabinPrimalityTest" /\ call.done
    /\ call.n = 97 /\ call.k = MaxRounds
    /\ call.draws[1] # call.draws[2]
    /\ call.result

\* C17: for min < max and every random buffer, generateRandomBigInt returns a
\* value v with min <= v < max.
C17_RandomBigIntInRange ==
    (call.op = "generateRandomBigInt" /\ call.done /\ call.min < call.max)
        => /\ ~call.threw
           /\ ~SignedLess(call.value, Signed(call.min))
           /\ SignedLess(call.value, Signed(call.max))

C17_Witness ==
    /\ call.op = "generateRandomBigInt" /\ call.done
    /\ call.min = ExampleRange[1] /\ call.max = ExampleRange[2]
    /\ call.random = <<255, 255>>
    /\ call.value = Signed(835)


\* the non-negative integer the bytes of a buffer denote, read big-endian
Denoted(buffer) == Strip(Raw(buffer))

\* C12: for a non-empty buffer b and 1 <= n <= length(b),
\* bigIntsToBuffer(bufferToBigInts(b, n)) denotes the same integer as b.
C12_RoundTripKeepsValue ==
    (call.op = "bufferToBigInts" /\ call.done)
        => Denoted(call.result) = Denoted(call.buffer)

\* the same list, element by element
SameOrder(hashes, order) == Permuted(hashes, order) = hashes

\* C16 as documented: combineHashes raises on the empty list and every permutation
\* of a non-empty list yields the same combined value.
C16_CombineCommutative ==
    (call.op = "combineHashes" /\ call.done)
        => /\ call.result.threw <=> Len(call.hashes) = 0
           /\ call.permuted = call.result

\* C16: combineHashes raises on the empty list; otherwise it is a left fold,
\* acc <- sha256(acc | h), whose value depends on the order: a permutation of the
\* list yields the same value exactly when it yields the same list.
C16_CombineOrdered ==
    (call.op = "combineHashes" /\ call.done)
        => /\ call.result.threw <=> Len(call.hashes) = 0
           /\ ~call.result.threw =>
                /\ call.result.value =
                     IF Len(call.hashes) = 1 THEN call.hashes[1]
                     ELSE Sha256(CombineHashes(SubSeq(call.hashes, 1, Len(call.hashes) - 1))
                                 \o call.hashes[Len(call.hashes)])
                /\ (call.permuted = call.result) <=> SameOrder(call.hashes, call.order)

C16_Witness ==
    /\ call.op = "combineHashes" /\ call.done
    /\ Len(call.hashes) = MaxHashes
    /\ ~SameOrder(call.hashes, call.order)
    /\ call.permuted # call.result


\* C15 as documented: generateLargePrime fails exactly for bits < 64; every
\* candidate it tests is odd, also after the search passed the top of the range;
\* the value returned lies in [2^(bits-1), 2^bits - 1] and is accepted by the test.
C15_SearchOddAndInRange ==
    (call.op = "generateLargePrime")
        => /\ call.position = "threw" => call.bits < MinPrimeBits
           /\ call.bits < MinPrimeBits => call.position \in {"called", "threw"}
           /\ call.position = "testing" => ~BigIsEven(call.candidate)
           /\ call.position = "returned" =>
                /\ ~BigLess(call.candidate, MinValue(call.bits))
                /\ ~BigLess(MaxValue(call.bits), call.candidate)
                /\ MillerRabinPrimalityTest(Pos(call.candidate), PrimeRounds, call.draws)

\* Once the search has passed the top of the range, every candidate is even and
\* the loop has not returned.
WrappedSearchGoesOn ==
    (call.op = "generateLargePrime" /\ call.wrapped)
        => call.position = "testing" /\ BigIsEven(call.candidate)

C15_Returned ==
    /\ call.op = "generateLargePrime" /\ call.position = "returned"
    /\ call.steps > 0


C14_CorruptedRejected ==
    (/\ last.op \in {"verify", "reverify"}
     /\ last.subject = "tampered"
     /\ \/ IncludesCorrupted(held.commitment)
        \/ IncludesCorrupted(held.challenge)
        \/ IncludesCorrupted(held.response))
        => verdict = "false"

\* C19: when createProof raises for its parameters, it has drawn no random
\* bytes, generated no prime and computed no hash before.
C19_ValidationFirst ==
    (last.op = "create" /\ last.threw) => last.before = {}


\* the conditions under which HashZKP.verifyProof is documented to return true
DocumentedHashProof(proof) ==
    /\ proof.type = "hash"
    /\ \A f \in {"commitment", "challenge", "response", "hashChain", "chainLength"} :
            f \notin proof.missing \cup proof.mistyped
    /\ Len(proof.hashChain) > 0
    /\ proof.chainLength > 0
    /\ "merkleTree" \notin proof.missing /\ "merkleProof" \notin proof.missing
    /\ \A f \in {"merkleProof", "hashChain[0]", "commitmentChain"} :
            f \notin proof.missing \cup proof.mistyped
    /\ MerkleFold(proof.hashChain[1], proof.merkleProof, 1, 0) = proof.commitmentChain
    /\ DocumentedChain(proof.hashChain)
    /\ proof.hashChain[1] = proof.commitment
    /\ ByteLength(proof.response) = 64
    /\ ByteLength(proof.challenge) = 32

\* C20: HashZKP.verifyProof returns true exactly when the proof has the hash
\* shape, the Merkle proof of hashChain[0] at index 0 folds to the stored root, the
\* chain has at least 2 elements each the sha256 of its predecessor, hashChain[0]
\* is the commitment, the response has 64 bytes and the challenge 32.
C20_HashVerifyIff ==
    (last.op \in {"verify", "reverify"} /\ last.engine = "hash")
        => (verdict = "true" <=> DocumentedHashProof(held))

C20_Witness ==
    /\ last.op = "verify" /\ last.engine = "hash"
    /\ last.subject = "tampered" /\ last.field = "challenge"
    /\ verdict = "true"


(***************************************************************************)
(* Properties of the batch                                                 *)
(***************************************************************************)
\* the number of loop iterations a batch size leads to: ceil(length / batchSize)
Batches(secrets, batchSize) == CeilDiv(2 * Len(secrets), batchSize)

BatchReturned ==
    /\ Len(call.proofs) = Len(call.secrets)
    /\ \A k \in 1..Len(call.secrets) :
          /\ call.proofs[k].secret = call.secrets[k]
          /\ call.proofs[k].type = call.algorithm
    /\ (call.parallel /\ call.callback) =>
          /\ Len(call.progress) = Batches(call.secrets, call.batchSize)
          /\ \A k \in 1..Len(call.progress) :
                /\ call.progress[k].num > 0
                /\ call.progress[k].num <= call.progress[k].den
                /\ k > 1 => call.progress[k].num >= call.progress[k - 1].num
          /\ Len(call.secrets) > 0 =>
                call.progress[Len(call.progress)].num = call.progress[Len(call.progress)].den
    /\ ~(call.parallel /\ call.callback) => call.progress = <<>>

LaterChecks == {"verifyMerkleProof", "verifyHashChain", "commitment"}

\* the response of a created proof is as long as the response of a proof of any
\* other secret, from any other draws, under the same parameters
C21_LengthFixed ==
    (last.op = "create" /\ ~last.threw)
        => \A secret \in Secrets, id \in 1..MaxDraws :
              ByteLength(CreateProofOf(last.engine, secret, last.parameters, id, 0)
                            .proof.response) = ByteLength(held.response)

\* the hash engine rejects a response of another length than 64 before it
\* evaluates the Merkle, chain and commitment checks
C21_HashLengthBeforeMerkle ==
    (/\ last.op = "verify" /\ last.subject = "tampered" /\ last.field = "response"
     /\ last.engine = "hash"
     /\ ByteLength(held.response) # 64)
        => /\ verdict = "false"
           /\ \A k \in 1..Len(HashChecksEvaluated(held)) :
                HashChecksEvaluated(held)[k] \notin LaterChecks

\* the hybrid engine rejects a response that is not as long as a digest
C21_HybridLengthChecked ==
    (/\ last.op = "verify" /\ last.subject = "tampered" /\ last.field = "response"
     /\ last.engine = "hybrid"
     /\ ByteLength(held.response) # ByteLength(Sha256(<<>>)))
        => verdict = "false"

\* C21: the response of a created proof has a byte length that depends on the
\* engine only, not on the secret or the random draws, and verifyProof checks that
\* length first: a proof whose response was given another length is rejected, by
\* the hash engine before the Merkle, chain and commitment checks are evaluated.
C21_ResponseLengthFirst ==
    /\ C21_LengthFixed
    /\ C21_HashLengthBeforeMerkle
    /\ C21_HybridLengthChecked


\* the integers verifyLWEEquation reads from the response of a lattice-shaped proof
DecodedResponse(proof) == BufferToBigInts(proof.response, proof.dimension)

\* C22: LatticeZKP.verifyProof rejects every proof whose response decodes into
\* `dimension` integers that are all zero or all one and the same value.
C22_UniformResponseRejected ==
    (/\ last.op \in {"verify", "reverify"}
     /\ last.engine = "lattice"
     /\ held.type = "lattice"
     /\ LatticeValidateProofStructure(held)
     /\ IsBytes(held.response)
     /\ Cardinality({DecodedResponse(held)[i] : i \in 1..held.dimension}) = 1)
        => verdict = "false"

\* the all-zero half of C22, which the code does check
C22_ZeroResponseRejected ==
    (/\ last.op \in {"verify", "reverify"}
     /\ last.engine = "lattice"
     /\ held.type = "lattice"
     /\ LatticeValidateProofStructure(held)
     /\ IsBytes(held.response)
     /\ ~HasNonZero(DecodedResponse(held)))
        => verdict = "false"



(***************************************************************************)
(* Properties of the hybrid engine                                         *)
(***************************************************************************)
\* a component proof of a base type that the engine of its type accepts
AcceptedComponent(proof) ==
    /\ proof.type \in BaseAlgorithms
    /\ VerifyProofOf(proof.type, proof) = "true"

\* C23: HybridZKP.verifyProof returns true only if the component list is not
\* empty and every component has a base type and is accepted by the verifyProof
\* of the engine of that type; one rejected component, or a component of another
\* type such as 'hybrid', makes the hybrid proof rejected.
C23_EveryComponentVerified ==
    (/\ last.op \in {"verify", "reverify"}
     /\ last.engine = "hybrid"
     /\ verdict = "true")
        => /\ held.type = "hybrid"
           /\ Len(held.proofs) > 0
           /\ \A i \in 1..Len(held.proofs) : AcceptedComponent(held.proofs[i])

C23_Witness ==
    /\ last.op = "verify" /\ last.engine = "hybrid" /\ last.subject = "forged"
    /\ HybridValidateProofStructure(held)
    /\ Len(held.proofs) = 2
    /\ AcceptedComponent(held.proofs[1])
    /\ held.proofs[2].type = "multivariate"
    /\ ~AcceptedComponent(held.proofs[2])
    /\ verdict = "false"



(***************************************************************************)
(* Properties of the parts                                                 *)
(***************************************************************************)
\* the first 32 bytes of a witness, with zero bytes after a shorter one
WitnessPrefix(witness) ==
    [i \in 1..32 |-> IF i <= Len(witness) THEN witness[i] ELSE Byte(0)]

\* C24: for every secret, witness and challenge the response of the hash engine
\* has 64 bytes: the first 32 are the witness cut to 32 bytes, or followed by zero
\* bytes when it is shorter, and the last 32 are the HMAC-SHA256 of the challenge
\* under the key sha256(secret).
C24_ResponseLayout ==
    (call.op = "createResponse" /\ call.done)
        => /\ ByteLength(call.result) = 64
           /\ SubSeq(call.result, 1, 32) = WitnessPrefix(call.witness)
           /\ ByteLength(SubSeq(call.result, 1, 32)) = 32
           /\ SubSeq(call.result, 33, Len(call.result))
                = << <<"M", Sha256(call.secret), call.challenge>> >>

C24_Witness ==
    /\ call.op = "createResponse" /\ call.done
    /\ Len(call.witness) = 1
    /\ call.result[2] = Byte(0)
    /\ call.challenge = Sha256(Bytes(<<1>>))



(***************************************************************************)
(* Properties of the construction of a proof                               *)
(***************************************************************************)
\* the challenge an engine derives from a commitment, the witness of the id-th
\* call and the public context found in a proof
ChallengeFrom(engine, proof, id) ==
    CASE engine = "hash" -> HashGenerateChallenge(proof.commitment, Witness(id))
      [] engine = "lattice" ->
            GenerateLWEChallenge(proof.commitment, Witness(id),
                                 GenerateLWESample(proof.dimension, proof.modulus, id))
      [] engine = "multivariate" ->
            GenerateMultivariateChallenge(proof.commitment, Witness(id),
                                          proof.polynomialSystem)
      [] engine = "hybrid" ->
            GenerateHybridChallenge(proof.commitment, Witness(id), proof.proofs)

\* the public context of a proof: what the challenge is derived from besides the
\* commitment and the witness
ContextOf(engine, proof) ==
    CASE engine = "hash" -> <<>>
      [] engine = "lattice" -> <<proof.dimension, proof.modulus>>
      [] engine = "multivariate" -> proof.polynomialSystem
      [] engine = "hybrid" -> [i \in 1..Len(proof.proofs) |-> proof.proofs[i].commitment]

\* the constructions of the same engine under the same parameters and draws of
\* the random source, one per secret
OtherConstructions ==
    {CreateProofOf(last.engine, secret, last.parameters, last.id, 0).proof :
        secret \in Secrets}

\* C25: in every engine's createProof the challenge is derived from the
\* commitment that was computed before it, the random witness and the public
\* context (LWE vector, serialized system, component commitments), and the hash
\* and hybrid responses from that challenge; two constructions that agree on
\* those values have the same challenge, whatever their secrets are.
C25_ChallengeFromCommitment ==
    (last.op = "create" /\ ~last.threw)
        => /\ held.challenge = ChallengeFrom(last.engine, held, last.id)
           /\ last.engine = "hash" =>
                held.response = HashCreateResponse(SecretBuffer(last.secret),
                                                   Witness(last.id), held.challenge)
           /\ last.engine = "hybrid" =>
                held.response = CreateHybridResponse(SecretBuffer(last.secret),
                                    Witness(last.id), held.challenge, held.proofs)
           /\ \A other \in OtherConstructions :
                (/\ other.commitment = held.commitment
                 /\ ContextOf(last.engine, other) = ContextOf(last.engine, held))
                    => other.challenge = held.challenge

C25_Witness ==
    /\ last.op = "create" /\ ~last.threw /\ last.engine = "lattice"
    /\ \E secret \in Secrets \ {last.secret} :
          /\ CreateProofOf("lattice", secret, last.parameters, last.id, 0).proof.commitment
                = held.commitment
          /\ CreateProofOf("lattice", secret, last.parameters, last.id, 0).proof.challenge
                = held.challenge



(***************************************************************************)
(* Properties of the multivariate engine                                   *)
(***************************************************************************)
\* the polynomialSystem of a proof is the JSON text of a system with as many
\* equations and variables as the proof states
WellFormedSystem(proof) ==
    /\ Len(proof.polynomialSystem) = 1
    /\ proof.polynomialSystem[1][1] = "J"
    /\ proof.polynomialSystem[1][2].equations = proof.equations
    /\ proof.polynomialSystem[1][2].variables = proof.variables

\* C26: MultivariateZKP.verifyProof returns false, and does not raise, for a
\* proof whose polynomialSystem is not a well-formed serialized system of the
\* proof's dimensions, also when every other field is that of a valid proof.
C26_MalformedSystemRejected ==
    (/\ last.op \in {"verify", "reverify"}
     /\ last.engine = "multivariate"
     /\ held.type = "multivariate"
     /\ MultivariateValidateProofStructure(held)
     /\ ~WellFormedSystem(held))
        => verdict = "false"

\* the half of C26 that holds: such a verification does not raise
C26_MalformedSystemNoRaise ==
    (/\ last.op \in {"verify", "reverify"}
     /\ last.engine = "multivariate"
     /\ held.type = "multivariate"
     /\ MultivariateValidateProofStructure(held)
     /\ ~WellFormedSystem(held))
        => /\ verdict \in {"true", "false"}
           /\ MultivariateVerifyBody(held) # "throw"


\* C27: for every proof MultivariateZKP.createProof returns, the polynomialSystem
\* deserializes to the generated system, of `equations` equations over `variables`
\* unknowns (it serializes back to the same bytes), and solution holds one value
\* of 1 to 8 bytes per equation; also for more than 50 variables and equations.
C27_SystemRoundTrip ==
    (last.op = "create" /\ last.engine = "multivariate" /\ ~last.threw)
        => /\ Len(DeserializePolynomialSystem(held.polynomialSystem)) = held.equations
           /\ \A eq \in 1..Len(DeserializePolynomialSystem(held.polynomialSystem)) :
                Len(DeserializePolynomialSystem(held.polynomialSystem)[eq]) = held.variables
           /\ SerializePolynomialSystem(DeserializePolynomialSystem(held.polynomialSystem))
                = held.polynomialSystem
           /\ ByteLength(held.solution) >= held.equations
           /\ ByteLength(held.solution) <= 8 * held.equations

\* C27 for the systems of at most 50 equations and variables
C27_SmallSystemRoundTrip ==
    (/\ last.op = "create" /\ last.engine = "multivariate" /\ ~last.threw
     /\ held.equations <= MaxSystemDimension /\ held.variables <= MaxSystemDimension)
        => /\ Len(DeserializePolynomialSystem(held.polynomialSystem)) = held.equations
           /\ \A eq \in 1..Len(DeserializePolynomialSystem(held.polynomialSystem)) :
                Len(DeserializePolynomialSystem(held.polynomialSystem)[eq]) = held.variables
           /\ SerializePolynomialSystem(DeserializePolynomialSystem(held.polynomialSystem))
                = held.polynomialSystem
           /\ ByteLength(held.solution) >= held.equations
           /\ ByteLength(held.solution) <= 8 * held.equations


\* the two weight maps of a call both give a weight to some algorithm among the
\* components, and not the same one
WeightsDiffer ==
    \E i \in 1..Len(call.proofs) :
        /\ call.weights1[call.proofs[i].type].t = "number"
        /\ call.weights2[call.proofs[i].type].t = "number"
        /\ call.weights1[call.proofs[i].type] # call.weights2[call.proofs[i].type]

\* the fields of a hybrid proof other than combined and algorithmWeights
OtherFields ==
    {"type", "commitment", "response", "challenge", "parameters", "quantumSafe",
     "version", "proofs"}

\* weight maps that differ on an algorithm among the components give different
\* combined digests
C28_DigestsDiffer ==
    (call.op = "combineProofs" /\ call.done /\ WeightsDiffer)
        => call.first.combined # call.second.combined

\* no other field than combined and algorithmWeights depends on the weights
C28_OtherFieldsKept ==
    (call.op = "combineProofs" /\ call.done)
        => \A f \in OtherFields : call.first[f] = call.second[f]

\* C28: for a fixed list of component proofs, two weight maps that give a
\* different weight to an algorithm among the components, 0 against 0.25 included,
\* give different combined digests, and the weights change no other field of the
\* hybrid proof than combined and algorithmWeights.
C28_WeightsOnlyInDigest ==
    /\ C28_DigestsDiffer
    /\ C28_OtherFieldsKept


\* C29: createOptimizedHashChain(seed, length) returns the plain hash chain of
\* that length: element 0 is sha256(seed) and every later element is the sha256
\* of the one before it, for every length from 0 on, a multiple of the batch
\* size or not
C29_OptimizedChainIsPlainChain ==
    (call.op = "createOptimizedHashChain" /\ call.done) =>
        /\ Len(call.result) = call.length
        /\ call.length > 0 => call.result[1] = Sha256(call.seed)
        /\ \A i \in 2..Len(call.result) : call.result[i] = Sha256(call.result[i - 1])
        /\ call.result = CreateHashChain(call.seed, call.length)

\* a chain of more than one batch whose last batch is not a full one
C29_Witness ==
    /\ call.op = "createOptimizedHashChain" /\ call.done
    /\ call.length > ChainBatchSize /\ call.length % ChainBatchSize # 0
    /\ Len(call.result) = call.length


(***************************************************************************)
(* Properties of the lattice commitment                                    *)
(***************************************************************************)
\* a lattice proof that createProof has just returned
CreatedLatticeProof ==
    /\ last.op \in {"create", "again"}
    /\ last.engine = "lattice"
    /\ held.type = "lattice"

\* the commitment of a created lattice proof holds at least one byte
C30_CommitmentNonEmpty ==
    CreatedLatticeProof => ByteLength(held.commitment) > 0

\* the integer read from the commitment of a created lattice proof is below the
\* modulus
C30_CommitmentBelowModulus ==
    CreatedLatticeProof =>
        BigLess(BufferToBigInts(held.commitment, 1)[1], held.modulus)

\* C30: the commitment of every proof LatticeZKP.createProof returns is a
\* non-empty byte string that decodes to an integer in [0, modulus), whatever the
\* Gaussian error drawn and also for the empty secret.
C30_CommitmentInRange ==
    C30_CommitmentNonEmpty /\ C30_CommitmentBelowModulus

====
